---- MODULE Spec2Model ----
(***************************************************************************)
(* Capabilities acquisition pipeline of src/main.py: the endpoint builder  *)
(* (_build_url), the version negotiator (_get_service_data_impl), the      *)
(* lru_cache in front of it (_get_service_data_cached) and the facade      *)
(* (get_service_data).                                                     *)
(*                                                                         *)
(* Strings that the code only compares or copies are TLA+ strings.  A      *)
(* string the code slices (an exception's text) is a sequence of           *)
(* characters, each character tagged with the exception it belongs to.     *)
(* Python's None is the string "None".                                     *)
(*                                                                         *)
(* A call of get_service_data runs in steps: the key check and the cache   *)
(* lookup, then one step per version candidate; the clock may advance      *)
(* between any two steps.  Spec starts from the process after import with  *)
(* the default configuration, SpecCfg with MAX_URL_LEN taken from the      *)
(* environment, SpecLRU from a process whose cache is full.  In one        *)
(* behaviour the callers ask for one registered service key (any of the    *)
(* modelled ones) and for an unregistered key.                             *)
(***************************************************************************)
EXTENDS Integers, Sequences, FiniteSets, TLC

VARIABLES
  now,          \* time.time(), whole seconds
  max_url_len,  \* MAX_URL_LEN as read from the environment at import
  cache,        \* the lru_cache of _get_service_data_cached, least recently used first
  nuse,         \* number of cache uses (hits and stores) so far
  th,           \* per thread: the get_service_data call it runs
  prev,         \* summary of the call completed before the current one
  ncalls,       \* calls started so far
  keys,         \* the registered service keys the callers ask for
  bu,           \* a call of _build_url: its arguments and its outcome
  fx,           \* a call of _fetch_xml: the response, the loop's locals, its outcome
  px,           \* a capabilities document and the items built from it
  tm            \* a call of _get_service_data_impl and the readings of perf_counter

vars == <<now, max_url_len, cache, nuse, th, prev, ncalls, keys, bu, fx, px, tm>>

\* the variables of the calls studied on their own
pure == <<bu, fx, px, tm>>

----------------------------------------------------------------------------
(* Bounds of the model *)

\* number of get_service_data calls in one behaviour
MaxCalls == 2

\* number of chunks in which a response body arrives
MaxChunks == 3

\* number of Layer, FeatureType or CoverageSummary elements in a document
MaxLayers == 3

\* milliseconds one call of _get_service_data_impl is followed for
MaxMillis == 4

(* Program constants *)

MAX_URL_LEN == 400
MAX_XML_BYTES == 8000000
CHUNK_SIZE == 65536
\* ord(":"), the separator of _split_qname
COLON == 58
CACHE_TTL_SECONDS == 900
LRU_MAXSIZE == 64
ERR_SLICE == 220
HTTP_RETRIES == 2

None == "None"

Min(a, b) == IF a < b THEN a ELSE b
Max(a, b) == IF a > b THEN a ELSE b

Threads == {"t1"}

----------------------------------------------------------------------------
(* str.lower() on the strings that occur as schemes and query keys *)

LowerTable ==
  [s \in {"SERVICE", "Service", "VERSION", "Version", "REQUEST", "HTTPS", "HTTP"} |->
     CASE s \in {"SERVICE", "Service"} -> "service"
       [] s \in {"VERSION", "Version"} -> "version"
       [] s = "REQUEST" -> "request"
       [] s = "HTTPS" -> "https"
       [] s = "HTTP" -> "http"]

Lower(s) == IF s \in DOMAIN LowerTable THEN LowerTable[s] ELSE s

----------------------------------------------------------------------------
(* The registry.  A base URL is scheme, netloc+path (opaque), the query as  *)
(* the list of pairs parse_qsl yields, and the length of the whole string.  *)

OGC_SERVICES ==
  [k \in {"dwd_wms", "pegel_wfs", "dop20_he_wcs"} |->
     CASE k = "dwd_wms" ->
            [kind |-> "wms",
             url |-> [scheme |-> "https", hostpath |-> "maps.dwd.de/geoserver/wms",
                      query |-> << <<"SERVICE", "WMS">>, <<"VERSION", "1.3.0">>,
                                   <<"REQUEST", "GetCapabilities">> >>,
                      len |-> 83]]
       [] k = "pegel_wfs" ->
            [kind |-> "wfs",
             url |-> [scheme |-> "https",
                      hostpath |-> "www.pegelonline.wsv.de/webservices/gis/aktuell/wfs",
                      query |-> << >>, len |-> 58]]
       [] k = "dop20_he_wcs" ->
            [kind |-> "wcs",
             url |-> [scheme |-> "https", hostpath |-> "inspire-hessen.de/raster/dop20/ows",
                      query |-> << <<"SERVICE", "WCS">>, <<"VERSION", "2.0.1">>,
                                   <<"REQUEST", "GetCapabilities">> >>,
                      len |-> 92]]]


----------------------------------------------------------------------------
(* Exceptions.  Every character of the text of an exception carries the    *)
(* exception type and the index of the version candidate whose attempt     *)
(* raised it; a text is kept as that character and the number of times it  *)
(* is repeated.                                                            *)

ErrTypes ==
  {"ValueError:url", "ValueError:scheme", "HTTPError", "Timeout",
   "ConnectionError", "ValueError:size", "ParseError"}

\* urlsplit(url).netloc of the registered base URLs
Netloc ==
  [k \in DOMAIN OGC_SERVICES |->
     CASE k = "dwd_wms" -> "maps.dwd.de"
       [] k = "pegel_wfs" -> "www.pegelonline.wsv.de"
       [] k = "dop20_he_wcs" -> "inspire-hessen.de"]

RECURSIVE QueryLen(_)
\* len(urlencode(q)): key=value for every pair, joined by "&"
QueryLen(q) ==
  IF q = << >> THEN 0
  ELSE Len(q[1][1]) + 1 + Len(q[1][2])
         + (IF Len(q) > 1 THEN 1 + QueryLen(Tail(q)) ELSE 0)

\* len(url) of a URL _build_url returns: scheme://netloc/path?query
UrlLen(u) ==
  Len(u.scheme) + 3 + Len(u.hostpath)
    + (IF u.query = << >> THEN 0 ELSE 1 + QueryLen(u.query))

\* len(repr(conn)) of the connection object in the texts of urllib3:
\* <pip._vendor.urllib3.connection.HTTPSConnection object at 0x7f24ca699590>
CONN_REPR == 73

\* the standard reason phrases of the statuses raise_for_status raises for
Reason ==
  [st \in {400, 404, 413, 429, 500, 502, 503, 504} |->
     CASE st = 400 -> "Bad Request"
       [] st = 404 -> "Not Found"
       [] st = 413 -> "Request Entity Too Large"
       [] st = 429 -> "Too Many Requests"
       [] st = 500 -> "Internal Server Error"
       [] st = 502 -> "Bad Gateway"
       [] st = 503 -> "Service Unavailable"
       [] st = 504 -> "Gateway Timeout"]

\* the cause a raise without further causes has
NoCause == [what |-> "", n |-> 0]

\* the connect timeout of the default CONNECT_TIMEOUT: len("3.05")
DefaultConnectTimeout == [what |-> "connect timeout", n |-> 4]

\* What makes the attempt of a candidate raise an exception of the type, in
\* the behaviours followed.
\* HTTPError: the status of the response, one that is answered at once and one
\* of the status_forcelist.
\* Timeout: no connection within CONNECT_TIMEOUT; n is the length of its text,
\* four characters for the default 3.05, three for a value read from the
\* environment such as 5.0.
\* ConnectionError: the connection is refused, is closed before the response,
\* stays silent past READ_TIMEOUT before the response (n the length of its
\* text, 18.0 by default), or stays silent past it while the body is streamed.
\* ParseError: the parser's message for a body that is not XML and for an
\* empty or cut-off body; n is the number of digits of the line and the column
\* it names.
Causes(type) ==
  CASE type = "HTTPError" -> [what : {"status"}, n : {404, 503}]
    [] type = "Timeout" -> [what : {"connect timeout"}, n : {3, 4}]
    [] type = "ConnectionError" ->
         {[what |-> "refused", n |-> 0], [what |-> "closed", n |-> 0],
          [what |-> "read timeout", n |-> 4], [what |-> "body", n |-> 0]}
    [] type = "ParseError" ->
         [what : {"syntax error", "no element found"}, n : {2}]
    [] OTHER -> {NoCause}

\* len(str(e)) of the exception of the type and cause that a candidate with
\* the request URL url to the host raises
ErrLen(type, cause, url, host) ==
  LET pathquery == UrlLen(url) - Len(url.scheme) - 3 - Len(host)
      \* HTTPSConnectionPool(host='<host>', port=443): Read timed out.
      timedout == 55 + Len(host)
      \* HTTPSConnectionPool(host='<host>', port=443): Max retries exceeded
      \* with url: <path?query>
      pool == 71 + Len(host) + pathquery
  IN CASE type = "ValueError:url" -> 22      \* "Ungueltige Service-URL."
       [] type = "ValueError:scheme" -> 31   \* "Nur https:// URLs sind erlaubt."
       \* raise_for_status: "<status> Client Error: <reason> for url: <url>",
       \* "Server Error" from 500 on
       [] type = "HTTPError" -> 28 + Len(Reason[cause.n]) + UrlLen(url)
       \* ConnectTimeout: <pool> (Caused by ConnectTimeoutError(<conn>,
       \* 'Connection to <host> timed out. (connect timeout=<timeout>)'))
       [] type = "Timeout" -> pool + 82 + CONN_REPR + Len(host) + cause.n
       \* <pool> (Caused by NewConnectionError('<conn>: Failed to establish
       \* a new connection: [Errno 111] Connection refused'))
       [] type = "ConnectionError" /\ cause.what = "refused" ->
            pool + 105 + CONN_REPR
       \* <pool> (Caused by ProtocolError('Connection aborted.',
       \* RemoteDisconnected('Remote end closed connection without response')))
       [] type = "ConnectionError" /\ cause.what = "closed" -> pool + 118
       \* <pool> (Caused by ReadTimeoutError("<timedout> (read
       \* timeout=<timeout>)"))
       [] type = "ConnectionError" /\ cause.what = "read timeout" ->
            pool + 30 + timedout + 15 + cause.n + 4
       \* iter_content: ConnectionError(ReadTimeoutError): <timedout>
       [] type = "ConnectionError" /\ cause.what = "body" -> timedout
       [] type = "ValueError:size" -> 56     \* "Capabilities-Dokument ist zu gross (...)."
       \* "<message>: line <l>, column <c>"
       [] type = "ParseError" -> Len(cause.what) + 16 + cause.n

\* the text of no characters
EmptyText == [char |-> <<None, 0>>, len |-> 0]

Exc(type, cause, cand, url, host) ==
  [type |-> type,
   text |-> [char |-> <<type, cand>>, len |-> ErrLen(type, cause, url, host)]]

NoErr == [type |-> None, text |-> EmptyText]

\* what _fetch_xml and the parsers raise for one candidate
UpstreamErrTypes ==
  {"HTTPError", "Timeout", "ConnectionError", "ValueError:size", "ParseError"}

\* s[:n]
Slice(s, n) == [s EXCEPT !.len = Min(n, s.len)]

----------------------------------------------------------------------------
(* _build_url *)

\* DictSet on a list of pairs instead of a dict
DictSet_append(q, k, v) == Append(q, <<k, v>>)

\* q[k] = v on a dict kept as the list of its items in insertion order
DictSet(q, k, v) ==
  IF \E i \in 1..Len(q) : q[i][1] = k
    THEN [i \in 1..Len(q) |-> IF q[i][1] = k THEN <<k, v>> ELSE q[i]]
    ELSE Append(q, <<k, v>>)

RECURSIVE DictFrom(_, _)
\* {k.lower(): v for k, v in pairs}, continued from the dict q
DictFrom(q, pairs) ==
  IF pairs = << >> THEN q
  ELSE DictFrom(DictSet(q, Lower(pairs[1][1]), pairs[1][2]), Tail(pairs))

\* _build_url_error that lets every scheme beginning with http pass
_build_url_error_http(base_url, maxlen) ==
  IF base_url.len = 0 \/ base_url.len > maxlen THEN "ValueError:url"
  ELSE IF Lower(base_url.scheme) \notin {"https", "http"} THEN "ValueError:scheme"
  ELSE None

\* the exception type _build_url raises for base_url, None when it raises nothing
_build_url_error(base_url, maxlen) ==
  IF base_url.len = 0 \/ base_url.len > maxlen THEN "ValueError:url"
  ELSE IF Lower(base_url.scheme) # "https" THEN "ValueError:scheme"
  ELSE None

\* the URL _build_url returns when it raises nothing
_build_url(base_url, updates) ==
  [scheme |-> Lower(base_url.scheme),
   hostpath |-> base_url.hostpath,
   query |-> DictFrom(DictFrom(<< >>, base_url.query), updates)]

----------------------------------------------------------------------------
(* _get_service_data_impl: the candidates and the result *)

\* versions with the oldest version first
versions_reordered(kind) ==
  CASE kind = "wms" -> <<"1.1.1", "1.3.0", "">>
    [] kind = "wfs" -> <<"1.0.0", "1.1.0", "2.0.0", "">>
    [] kind = "wcs" -> <<"1.0.0", "2.0.0", "2.0.1", "">>

versions(kind) ==
  CASE kind = "wms" -> <<"1.3.0", "1.1.1", "">>
    [] kind = "wfs" -> <<"2.0.0", "1.1.0", "1.0.0", "">>
    [] kind = "wcs" -> <<"2.0.1", "2.0.0", "1.0.0", "">>

ServiceName(kind) ==
  CASE kind = "wms" -> "WMS" [] kind = "wfs" -> "WFS" [] kind = "wcs" -> "WCS"

\* the updates dict passed to _build_url for candidate v
Updates(kind, v) ==
  << <<"service", ServiceName(kind)>>, <<"request", "GetCapabilities">> >>
    \o (IF v # "" THEN << <<"version", v>> >> ELSE << >>)

cap_url(key, v) ==
  _build_url(OGC_SERVICES[key].url, Updates(OGC_SERVICES[key].kind, v))

\* A capabilities document, as far as the negotiator reads it: the version
\* and Version attributes of its root element (None: attribute absent) and the
\* number of items its parser appends (0: a document without a named Layer,
\* FeatureType or CoverageSummary, such as a service exception report).
Docs ==
  { [version |-> None, Version |-> None, nitems |-> 0],
    [version |-> "1.1.1", Version |-> None, nitems |-> 1] }

\* x or y
PyOr(x, y) == IF x # None /\ x # "" THEN x ELSE y

\* root.attrib.get("version") or root.attrib.get("Version")
parsed_version(doc) == PyOr(doc.version, doc.Version)

\* ResultVersion that prefers the requested version: (v or None) or parsed_version
ResultVersion_requested(doc, v) == PyOr(PyOr(v, None), parsed_version(doc))

\* parsed_version or (v or None)
ResultVersion(doc, v) == PyOr(parsed_version(doc), PyOr(v, None))

\* the dict returned by a successful candidate
ServiceResult(key, v, doc, t) ==
  [tag |-> "result",
   key |-> key,
   kind |-> OGC_SERVICES[key].kind,
   capabilities_url |-> cap_url(key, v),
   version |-> ResultVersion(doc, v),
   counts |-> doc.nitems,
   fetched_at |-> t]

\* RuntimeError(f"{KIND} Capabilities konnten nicht geladen werden: {str(last_err)[:220]}")
CapabilitiesUnavailable(kind, last_err) ==
  [tag |-> "error", type |-> "RuntimeError", label |-> ServiceName(kind),
   detail |-> Slice(last_err.text, ERR_SLICE)]

\* ValueError("Bitte waehle einen gueltigen Service aus.")
UnknownService ==
  [tag |-> "error", type |-> "ValueError", label |-> "unknown", detail |-> EmptyText]

\* ValueError("Unbekannter Service.") of _get_service_data_impl
ImplUnknownService ==
  [tag |-> "error", type |-> "ValueError", label |-> "unknown_impl", detail |-> EmptyText]

NoRet == [tag |-> "none"]

----------------------------------------------------------------------------
(* functools.lru_cache(maxsize=64) around _get_service_data_cached.        *)
(* An entry is [key, val, used]; used is the number of the use (hit or     *)
(* store) that last touched it, kept for stating recency.                  *)

\* position of key k in cache c, 0 when absent
CacheFind(c, k) ==
  IF \E i \in 1..Len(c) : c[i].key = k
    THEN CHOOSE i \in 1..Len(c) : c[i].key = k
    ELSE 0

\* CacheHit that leaves the entry where it is
CacheHit_inplace(c, i, n) == [c EXCEPT ![i].used = n]

\* a hit on position i: the entry moves to the most recently used end
CacheHit(c, i, n) ==
  [j \in 1..Len(c) |->
     IF j < i THEN c[j]
     ELSE IF j < Len(c) THEN c[j + 1]
     ELSE [c[i] EXCEPT !.used = n]]

\* CacheStore that forgets the value
CacheStore_dropped(c, k, val, n) == c

\* CacheStore without the second look for the key
CacheStore_blind(c, k, val, n) ==
  IF Len(c) < LRU_MAXSIZE THEN Append(c, [key |-> k, val |-> val, used |-> n])
  ELSE Append(Tail(c), [key |-> k, val |-> val, used |-> n])

\* after a miss whose call returned val: the key may have been stored by another
\* thread while the call ran, and then nothing is stored
CacheStore(c, k, val, n) ==
  IF CacheFind(c, k) # 0 THEN c
  ELSE IF Len(c) < LRU_MAXSIZE THEN Append(c, [key |-> k, val |-> val, used |-> n])
  ELSE Append(Tail(c), [key |-> k, val |-> val, used |-> n])

\* Memoize that also stores a failure
Memoize_any(c, k, outcome, n) ==
  IF CacheFind(c, k) # 0 THEN c
  ELSE Append(c, [key |-> k, val |-> outcome, used |-> n])

\* what the wrapper does with the outcome of the wrapped call: a returned value
\* is stored, a raised exception passes through and nothing is stored
Memoize(c, k, outcome, n) ==
  IF outcome.tag = "result" THEN CacheStore(c, k, outcome, n) ELSE c

\* Bucket with windows of twice the TTL
Bucket_wide(t) == t \div (2 * Max(CACHE_TTL_SECONDS, 1))

\* int(time.time()) // max(CACHE_TTL_SECONDS, 1)
Bucket(t) == t \div Max(CACHE_TTL_SECONDS, 1)

----------------------------------------------------------------------------
(* State of one get_service_data call *)

NoDoc == [none |-> TRUE]

\* caller: the handler that called get_service_data, "none" for a direct call
IdleCall ==
  [pc |-> "idle", key |-> "", arg |-> 0, refresh |-> 0, bucket |-> 0, idx |-> 0,
   last_err |-> NoErr, tried |-> << >>, failed |-> << >>, reqs |-> << >>,
   doc |-> NoDoc, hit |-> FALSE, ret |-> NoRet, caller |-> "none"]

\* no call of _build_url, _fetch_xml or a parser under study
NoBuild == [pc |-> "idle"]
NoFetch == [pc |-> "idle"]
NoParse == [pc |-> "idle"]
NoTimed == [pc |-> "idle"]

\* what is kept of a completed call for the next one: its arguments, its bucket,
\* how it ended and, when it went through the cache, the value it returned
Summary(c) ==
  [key |-> c.key, arg |-> c.arg, refresh |-> c.refresh, bucket |-> c.bucket,
   tag |-> c.ret.tag,
   nreqs |-> Len(c.reqs),
   val |-> IF c.refresh = 0 /\ c.ret.tag = "result" THEN c.ret ELSE NoRet]

NoCall ==
  [key |-> "", arg |-> 0, refresh |-> 0, bucket |-> 0, tag |-> "none", nreqs |-> 0,
   val |-> NoRet]

\* readings of time.time() in the window
\* the start of a bucket, its last second and the start of the next bucket
ClockReadings == {0, CACHE_TTL_SECONDS - 1, CACHE_TTL_SECONDS}

\* values of the refresh argument: api and index pass 0 or 1
RefreshInputs == {0, 1}

\* values of the MAX_URL_LEN environment variable
EnvMaxUrlLen == {MAX_URL_LEN, 60}

Kind(t) == OGC_SERVICES[th[t].key].kind
Candidates(t) == versions(Kind(t))
Candidate(t) == Candidates(t)[th[t].idx]

----------------------------------------------------------------------------
(* Actions *)

\* NormRefresh that never bypasses
NormRefresh_never(refresh_arg) == 0

\* refresh = 1 if refresh == 1 else 0
NormRefresh(refresh_arg) == IF refresh_arg = 1 THEN 1 ELSE 0

\* KnownService without the check
KnownService_any(service_key) == TRUE

\* service_key in OGC_SERVICES
KnownService(service_key) == service_key \in DOMAIN OGC_SERVICES

\* data["cache"] = {"ttl_seconds": CACHE_TTL_SECONDS, "refresh_bypass": bool(refresh)}
\* on the dict data
SetCacheInfo(data, refresh) ==
  [x \in DOMAIN data \cup {"cache"} |->
     IF x = "cache"
       THEN [ttl_seconds |-> CACHE_TTL_SECONDS, refresh_bypass |-> (refresh = 1)]
       ELSE data[x]]

\* the dict get_service_data returned, after the handler has used it: api sets
\* its "cache" key, index only reads it
Handled(caller, data, refresh) ==
  IF caller = "api" /\ data.tag = "result" THEN SetCacheInfo(data, refresh) ELSE data

\* the call once its outcome is with the handler
HandledCall(c) ==
  IF c.pc = "done" THEN [c EXCEPT !.ret = Handled(c.caller, c.ret, c.refresh)] ELSE c

\* _get_service_data_impl(service_key) up to the first candidate: the lookup of
\* the service in the registry
ImplStart(call, service_key) ==
  IF service_key \in DOMAIN OGC_SERVICES
    THEN [call EXCEPT !.pc = "fetch", !.idx = 1]
    ELSE [call EXCEPT !.pc = "done", !.ret = ImplUnknownService]

\* get_service_data(service_key, refresh), called by caller, up to the first
\* candidate: the key check, the refresh normalisation and, without bypass, the
\* cache lookup; on a hit the cached dict is returned to the handler, which
\* works on that very dict
CallService(t, service_key, refresh_arg, caller) ==
  LET refresh == NormRefresh(refresh_arg)
      bucket == Bucket(now)
      pos == CacheFind(cache, <<service_key, bucket>>)
      call == [IdleCall EXCEPT !.key = service_key, !.arg = refresh_arg,
                               !.refresh = refresh, !.caller = caller]
      hit == HandledCall([call EXCEPT !.pc = "done", !.bucket = bucket,
                                      !.hit = TRUE, !.ret = cache[pos].val])
  IN
  /\ th[t].pc \in {"idle", "done"}
  /\ ncalls < MaxCalls
  /\ ncalls' = ncalls + 1
  /\ prev' = IF th[t].pc = "done" THEN Summary(th[t]) ELSE prev
  /\ IF ~KnownService(service_key) THEN
       /\ th' = [th EXCEPT ![t] = [call EXCEPT !.pc = "done", !.ret = UnknownService]]
       /\ UNCHANGED <<cache, nuse>>
     ELSE IF refresh = 1 THEN
       /\ th' = [th EXCEPT ![t] = ImplStart(call, service_key)]
       /\ UNCHANGED <<cache, nuse>>
     ELSE IF pos # 0 THEN
       /\ th' = [th EXCEPT ![t] = hit]
       /\ cache' = [CacheHit(cache, pos, nuse + 1) EXCEPT ![Len(cache)].val = hit.ret]
       /\ nuse' = nuse + 1
     ELSE
       /\ th' = [th EXCEPT ![t] = ImplStart([call EXCEPT !.bucket = bucket], service_key)]
       /\ UNCHANGED <<cache, nuse>>
  /\ UNCHANGED <<now, max_url_len, keys, bu, fx, px, tm>>

\* get_service_data(service_key, refresh) called on its own
get_service_data(t, service_key, refresh_arg) ==
  CallService(t, service_key, refresh_arg, "none")

\* exception types the attempt of the current candidate can raise
RaisableBy(t) ==
  LET e == _build_url_error(OGC_SERVICES[th[t].key].url, max_url_len)
  IN IF e # None THEN {e} ELSE UpstreamErrTypes

\* AfterRaise that keeps the first exception: if last_err is None: last_err = e
AfterRaise_first(c, kind, v, requested, exc) ==
  LET kept == IF c.last_err = NoErr THEN exc ELSE c.last_err
      c1 == [c EXCEPT !.last_err = kept,
                      !.tried = Append(@, v),
                      !.failed = Append(@, v),
                      !.reqs = IF requested THEN Append(@, cap_url(c.key, v)) ELSE @]
  IN IF c.idx < Len(versions(kind))
       THEN [c1 EXCEPT !.idx = @ + 1]
       ELSE [c1 EXCEPT !.pc = "done", !.ret = CapabilitiesUnavailable(kind, kept)]

\* AfterRaise without the handler: the exception of the candidate ends the fetch
AfterRaise_surface(c, kind, v, requested, exc) ==
  [c EXCEPT !.last_err = exc,
            !.tried = Append(@, v),
            !.failed = Append(@, v),
            !.reqs = IF requested THEN Append(@, cap_url(c.key, v)) ELSE @,
            !.pc = "done",
            !.ret = CapabilitiesUnavailable(kind, exc)]

\* the thread's call after the current candidate's attempt raised exc
AfterRaise(c, kind, v, requested, exc) ==
  LET c1 == [c EXCEPT !.last_err = exc,
                      !.tried = Append(@, v),
                      !.failed = Append(@, v),
                      !.reqs = IF requested THEN Append(@, cap_url(c.key, v)) ELSE @]
  IN IF c.idx < Len(versions(kind))
       THEN [c1 EXCEPT !.idx = @ + 1]
       ELSE [c1 EXCEPT !.pc = "done", !.ret = CapabilitiesUnavailable(kind, exc)]

\* ThroughCache with the bypass path decorated too
ThroughCache_always(c) == TRUE

\* whether the call's outcome goes through the lru_cache wrapper
ThroughCache(c) == c.refresh = 0

\* the cache after the call c of a thread has ended
CacheAfter(c) ==
  IF c.pc = "done" /\ ThroughCache(c)
    THEN Memoize(cache, <<c.key, c.bucket>>, c.ret, nuse + 1)
    ELSE cache

\* one candidate whose try block raises: except Exception: last_err = e; continue,
\* and after the last candidate the RuntimeError
AttemptRaises(t, etype, cause) ==
  LET c == AfterRaise(th[t], Kind(t), Candidate(t), etype \in UpstreamErrTypes,
                      Exc(etype, cause, th[t].idx,
                          cap_url(th[t].key, Candidate(t)), Netloc[th[t].key]))
  IN
  /\ th[t].pc = "fetch"
  /\ etype \in RaisableBy(t)
  /\ th' = [th EXCEPT ![t] = c]
  /\ cache' = CacheAfter(c)
  /\ nuse' = IF cache' # cache THEN nuse + 1 ELSE nuse
  /\ UNCHANGED <<now, max_url_len, prev, ncalls, keys, bu, fx, px, tm>>

\* AfterReturn that takes a document without items for a failed candidate
AfterReturn_nonempty(c, v, doc, time) ==
  IF doc.nitems = 0
    THEN [AfterRaise(c, OGC_SERVICES[c.key].kind, v, TRUE,
                     Exc("ParseError", [what |-> "no element found", n |-> 2],
                         c.idx, cap_url(c.key, v), Netloc[c.key]))
            EXCEPT !.doc = doc]
    ELSE HandledCall([c EXCEPT !.pc = "done",
                               !.tried = Append(@, v),
                               !.reqs = Append(@, cap_url(c.key, v)),
                               !.doc = doc,
                               !.ret = ServiceResult(c.key, v, doc, time)])

\* the thread's call after the current candidate returned doc at time t; the
\* dict built is the one the lru_cache wrapper stores and the handler works on
AfterReturn(c, v, doc, time) ==
  HandledCall([c EXCEPT !.pc = "done",
                        !.tried = Append(@, v),
                        !.reqs = Append(@, cap_url(c.key, v)),
                        !.doc = doc,
                        !.ret = ServiceResult(c.key, v, doc, time)])

\* one candidate that is built, fetched and parsed: the result is returned, and
\* on the cached path the lru_cache wrapper stores it
AttemptReturns(t, doc) ==
  LET c == AfterReturn(th[t], Candidate(t), doc, now)
  IN
  /\ th[t].pc = "fetch"
  /\ _build_url_error(OGC_SERVICES[th[t].key].url, max_url_len) = None
  /\ th' = [th EXCEPT ![t] = c]
  /\ cache' = CacheAfter(c)
  /\ nuse' = IF cache' # cache THEN nuse + 1 ELSE nuse
  /\ UNCHANGED <<now, max_url_len, prev, ncalls, keys, bu, fx, px, tm>>

\* the clock advances
Tick ==
  /\ \E r \in ClockReadings : r > now /\ now' = r
  /\ UNCHANGED <<max_url_len, cache, nuse, th, prev, ncalls, keys, bu, fx, px, tm>>

Next ==
  \/ \E t \in Threads, k \in keys \cup {"nope"}, r \in RefreshInputs : get_service_data(t, k, r)
  \/ \E t \in Threads, e \in ErrTypes : \E c \in Causes(e) : AttemptRaises(t, e, c)
  \/ \E t \in Threads, d \in Docs : AttemptReturns(t, d)
  \/ Tick

InitCommon ==
  /\ now = 0
  /\ nuse = 0
  /\ th = [t \in Threads |-> IdleCall]
  /\ prev = NoCall
  /\ ncalls = 0
  /\ \E k \in DOMAIN OGC_SERVICES : keys = {k}
  /\ bu = NoBuild
  /\ fx = NoFetch
  /\ px = NoParse
  /\ tm = NoTimed

\* the process after import, default configuration
Init ==
  /\ InitCommon
  /\ max_url_len = MAX_URL_LEN
  /\ cache = << >>

Spec == Init /\ [][Next]_vars

\* the process after import, MAX_URL_LEN taken from the environment
InitCfg ==
  /\ InitCommon
  /\ max_url_len \in EnvMaxUrlLen
  /\ cache = << >>

SpecCfg == InitCfg /\ [][Next]_vars

----------------------------------------------------------------------------
(* _build_url called on its own.  The base URL is given by the scheme as    *)
(* written, the rest up to the query, the query pairs as written and the    *)
(* length of the whole string.                                              *)

\* schemes as written in a base URL; "" for a URL without scheme
BaseSchemes == {"https", "HTTPS", "http", ""}

BaseQueries ==
  { << >>,
    << <<"SERVICE", "WMS">>, <<"Version", "1.1.0">> >>,
    << <<"SERVICE", "WMS">>, <<"service", "WFS">>, <<"REQUEST", "GetCapabilities">> >>,
    << <<"version", "1.1.1">>, <<"map", "x">>, <<"VERSION", "1.3.0">> >> }

\* lengths of a base URL around the two values of MAX_URL_LEN
BaseLens == {60, 61, MAX_URL_LEN, MAX_URL_LEN + 1}

EmptyUrl == [scheme |-> "", hostpath |-> "", query |-> << >>, len |-> 0]

BaseUrls ==
  {EmptyUrl} \cup
  [scheme : BaseSchemes, hostpath : {"example.org/ows"}, query : BaseQueries,
   len : BaseLens]

\* the updates dicts: those of the negotiator and ones with other spellings
UpdateDicts ==
  { << >>,
    << <<"version", "1.3.0">> >>,
    Updates("wms", ""),
    Updates("wfs", "2.0.0"),
    << <<"VERSION", "1.0.0">>, <<"version", "2.0.0">> >> }

\* the outcome of _build_url(base_url, updates)
BuildOutcome(base_url, updates, maxlen) ==
  LET e == _build_url_error(base_url, maxlen) IN
  IF e # None THEN [tag |-> "error", type |-> e]
  ELSE [tag |-> "url", url |-> _build_url(base_url, updates)]

\* _build_url(base_url, updates) runs
BuildUrl ==
  /\ bu.pc = "call"
  /\ bu' = [bu EXCEPT !.pc = "done",
                       !.ret = BuildOutcome(bu.base_url, bu.updates, max_url_len)]
  /\ UNCHANGED <<now, max_url_len, cache, nuse, th, prev, ncalls, keys, fx, px, tm>>

InitUrl ==
  /\ now = 0
  /\ nuse = 0
  /\ th = [t \in Threads |-> IdleCall]
  /\ prev = NoCall
  /\ ncalls = 0
  /\ keys = {}
  /\ cache = << >>
  /\ max_url_len \in EnvMaxUrlLen
  /\ bu \in [pc : {"call"}, base_url : BaseUrls, updates : UpdateDicts, ret : {NoRet}]
  /\ fx = NoFetch
  /\ px = NoParse
  /\ tm = NoTimed

SpecUrl == InitUrl /\ [][BuildUrl]_vars

----------------------------------------------------------------------------
(* _fetch_xml called on its own.  SESSION.get runs the adapter mounted for   *)
(* https:// with the retry policy _retry: sent counts the requests issued   *)
(* for the URL, retries is what is left of _retry, resp the last outcome.   *)
(* The response body is the sequence of the lengths of the chunks           *)
(* iter_content yields; pos counts the chunks read.                         *)

\* values of the MAX_XML_BYTES environment variable: the default, and one that a
\* body of two chunks reaches
EnvMaxXmlBytes == {MAX_XML_BYTES, 100000}

\* lengths of a chunk: empty, one byte, the length that fills a full chunk up to
\* 100000 bytes, a full chunk
ChunkLens == {0, 1, 100000 - CHUNK_SIZE, CHUNK_SIZE}

\* the bodies of at most MaxChunks chunks
Bodies == UNION {[1..n -> ChunkLens] : n \in 0..MaxChunks}

\* status codes the upstream answers with
Statuses == {200, 304, 404, 413, 429, 500, 502, 503, 504}

\* what the upstream does with one request: a response (its status line and
\* whether it carries a Retry-After header; no Location header), or no response
\* because the connection failed ("connect") or broke or timed out while the
\* response was read ("read")
GetOutcomes ==
  [status : Statuses, retry_after : {FALSE}, error : {None}]
    \cup [status : {413, 503}, retry_after : {TRUE}, error : {None}]
    \cup [status : {0}, retry_after : {FALSE}, error : {"connect", "read"}]

NoResponse == [status |-> 0, retry_after |-> FALSE, error |-> None]

\* status_forcelist=(429, 500, 502, 503, 504)
STATUS_FORCELIST == {429, 500, 502, 503, 504}

\* Retry.RETRY_AFTER_STATUS_CODES, used because respect_retry_after_header is
\* left at its default
RETRY_AFTER_STATUS_CODES == {413, 429, 503}

\* Retry(total=HTTP_RETRIES, read=HTTP_RETRIES, connect=HTTP_RETRIES, ...)
_retry == [total |-> HTTP_RETRIES, read |-> HTTP_RETRIES, connect |-> HTTP_RETRIES]

\* Retry.is_retry for a GET: the status is in status_forcelist, or retries are
\* left and the response of a RETRY_AFTER_STATUS_CODES status has a Retry-After
is_retry(retries, status, has_retry_after) ==
  \/ status \in STATUS_FORCELIST
  \/ retries.total # 0 /\ has_retry_after /\ status \in RETRY_AFTER_STATUS_CODES

\* Retry.increment: total goes down by one, and so does the counter of the kind
\* of failure; a response counts against total only
increment(retries, outcome) ==
  [total |-> retries.total - 1,
   connect |-> IF outcome.error = "connect" THEN retries.connect - 1 ELSE retries.connect,
   read |-> IF outcome.error = "read" THEN retries.read - 1 ELSE retries.read]

\* Retry.is_exhausted
is_exhausted(retries) == retries.total < 0 \/ retries.connect < 0 \/ retries.read < 0

\* r.raise_for_status() raises: 400 <= status_code < 600
RaisesForStatus(status) == status >= 400 /\ status < 600

\* TooLarge that also refuses a body of exactly the limit
TooLarge_atlimit(size, limit) == size >= limit

\* size > MAX_XML_BYTES
TooLarge(size, limit) == size > limit

\* the call after the Transport handed the response outcome back to _fetch_xml:
\* r.raise_for_status(), then the body is streamed
FetchResponse(f, outcome, body) ==
  IF RaisesForStatus(outcome.status)
    THEN [f EXCEPT !.pc = "raised", !.err = "HTTPError", !.resp = outcome]
    ELSE [f EXCEPT !.pc = "stream", !.resp = outcome, !.body = body]

\* r = SESSION.get(url, ..., stream=True); r.raise_for_status(), one request of
\* it: the adapter sends the request and the upstream answers with outcome (and,
\* for a response, the body); a failure or a response that is_retry accepts is
\* retried while _retry is not exhausted, an exhausted failure raises
\* ConnectionError, an exhausted or other response is handed back
FetchGet(outcome, body) ==
  LET f == [fx EXCEPT !.sent = @ + 1]
      left == increment(fx.retries, outcome)
      again == [f EXCEPT !.retries = left, !.resp = outcome]
  IN
  /\ fx.pc = "get"
  /\ fx' = IF outcome.error # None
             THEN IF is_exhausted(left)
                    THEN [f EXCEPT !.pc = "raised", !.err = "ConnectionError",
                                   !.resp = outcome]
                    ELSE again
           ELSE IF is_retry(fx.retries, outcome.status, outcome.retry_after)
                   /\ ~is_exhausted(left)
             THEN again
           ELSE FetchResponse(f, outcome, body)
  /\ UNCHANGED <<now, max_url_len, cache, nuse, th, prev, ncalls, keys, bu, px, tm>>

\* one turn of the loop over r.iter_content(chunk_size=65536)
FetchChunk ==
  /\ fx.pc = "stream"
  /\ fx.pos < Len(fx.body)
  /\ LET chunk == fx.body[fx.pos + 1]
         size == fx.size + chunk
     IN fx' = IF chunk = 0 THEN [fx EXCEPT !.pos = @ + 1]
              ELSE IF TooLarge(size, fx.limit)
                THEN [fx EXCEPT !.pos = @ + 1, !.chunks = Append(@, chunk),
                                !.size = size, !.pc = "raised",
                                !.err = "ValueError:size"]
              ELSE [fx EXCEPT !.pos = @ + 1, !.chunks = Append(@, chunk),
                              !.size = size]
  /\ UNCHANGED <<now, max_url_len, cache, nuse, th, prev, ncalls, keys, bu, px, tm>>

\* the body is exhausted: return b"".join(chunks)
FetchJoin ==
  /\ fx.pc = "stream"
  /\ fx.pos = Len(fx.body)
  /\ fx' = [fx EXCEPT !.pc = "returned", !.payload = fx.size]
  /\ UNCHANGED <<now, max_url_len, cache, nuse, th, prev, ncalls, keys, bu, px, tm>>

NextFetch ==
  \/ \E o \in GetOutcomes, b \in Bodies : FetchGet(o, b)
  \/ FetchChunk
  \/ FetchJoin

InitFetch ==
  /\ now = 0
  /\ nuse = 0
  /\ th = [t \in Threads |-> IdleCall]
  /\ prev = NoCall
  /\ ncalls = 0
  /\ keys = {}
  /\ cache = << >>
  /\ max_url_len = MAX_URL_LEN
  /\ bu = NoBuild
  /\ fx \in [pc : {"get"}, sent : {0}, retries : {_retry}, resp : {NoResponse},
              body : {<< >>}, limit : EnvMaxXmlBytes, pos : {0},
              chunks : {<< >>}, size : {0}, err : {None}, payload : {None}]
  /\ px = NoParse
  /\ tm = NoTimed

SpecFetch == InitFetch /\ [][NextFetch]_vars

----------------------------------------------------------------------------
(* The parsers and the sort of their items.  A text that is stripped,       *)
(* split or ordered is the sequence of its code points.  _child_text never  *)
(* returns an empty string, so where the code holds "a text or None" the    *)
(* empty sequence stands for None.  An element is given by what the parser  *)
(* reads of it: for each child name the texts of the children of that name, *)
(* in document order; a WMS document is the sequence of its Layer elements  *)
(* in document order, each with its depth below the top Layer.  Abstract,   *)
(* queryable, bounding boxes, styles and output formats are left out.       *)

NoText == << >>

\* str.isspace for the characters that occur: space, tab, newline, return
IsSpace(c) == c \in {32, 9, 10, 13}

RECURSIVE LStrip(_)
LStrip(s) == IF s # << >> /\ IsSpace(Head(s)) THEN LStrip(Tail(s)) ELSE s

RECURSIVE RStrip(_)
RStrip(s) ==
  IF s # << >> /\ IsSpace(s[Len(s)]) THEN RStrip(SubSeq(s, 1, Len(s) - 1)) ELSE s

\* s.strip()
Strip(s) == RStrip(LStrip(s))

\* _child_text(elem, child_local_name), texts being the texts of elem's children
\* of that name: the stripped text of the first one, None when it is empty or
\* there is no such child
_child_text(texts) == IF texts = << >> THEN NoText ELSE Strip(texts[1])

\* x or y on texts
OrText(x, y) == IF x # NoText THEN x ELSE y

\* the position of the first ":" in name, 0 without one
FirstColon(name) ==
  IF \E i \in 1..Len(name) : name[i] = COLON
    THEN CHOOSE i \in 1..Len(name) :
           name[i] = COLON /\ \A j \in 1..(i - 1) : name[j] # COLON
    ELSE 0

\* _split_qname(name): (prefix, local name)
_split_qname(name) ==
  IF name = << >> THEN << << >>, << >> >>
  ELSE IF FirstColon(name) # 0
    THEN << SubSeq(name, 1, FirstColon(name) - 1),
            SubSeq(name, FirstColon(name) + 1, Len(name)) >>
  ELSE << << >>, name >>

RECURSIVE Dedup(_)
\* de-dup, stable: the first occurrence of each value is kept
Dedup(vals) ==
  IF vals = << >> THEN << >>
  ELSE LET front == Dedup(SubSeq(vals, 1, Len(vals) - 1))
           v == vals[Len(vals)]
       IN IF \E i \in 1..Len(front) : front[i] = v THEN front ELSE Append(front, v)

\* collect_crs(layer_elem), texts being the texts of its CRS and SRS children
collect_crs(texts) ==
  Dedup(SelectSeq([i \in 1..Len(texts) |-> Strip(texts[i])], LAMBDA t : t # << >>))

\* str.isdigit for one character
IsDigit(c) == c \in 48..57

\* the length of the first run of characters of t that are not whitespace
TokenLen(t) ==
  IF \E i \in 1..Len(t) : IsSpace(t[i])
    THEN (CHOOSE i \in 1..Len(t) : IsSpace(t[i]) /\ \A j \in 1..(i - 1) : ~IsSpace(t[j])) - 1
    ELSE Len(t)

RECURSIVE Split(_)
\* s.split(): the runs of characters of s that are not whitespace
Split(s) ==
  LET t == LStrip(s)
  IN IF t = << >> THEN << >>
     ELSE << SubSeq(t, 1, TokenLen(t)) >> \o Split(SubSeq(t, TokenLen(t) + 1, Len(t)))

\* a token without its sign
Unsigned(tok) == IF tok # << >> /\ Head(tok) \in {43, 45} THEN Tail(tok) ELSE tok

\* whether float(tok) returns, for tokens of signs, digits, "." and "x": an
\* optional sign, then digits with at most one "." among them
IsFloat(tok) ==
  LET u == Unsigned(tok)
  IN /\ \A i \in 1..Len(u) : IsDigit(u[i]) \/ u[i] = 46
     /\ Cardinality({i \in 1..Len(u) : u[i] = 46}) <= 1
     /\ \E i \in 1..Len(u) : IsDigit(u[i])

RECURSIVE DigitsValue(_)
\* the number a sequence of digits writes
DigitsValue(ds) ==
  IF ds = << >> THEN 0
  ELSE 10 * DigitsValue(SubSeq(ds, 1, Len(ds) - 1)) + (ds[Len(ds)] - 48)

\* the number of digits of u behind its "."
FracLen(u) ==
  IF \E i \in 1..Len(u) : u[i] = 46
    THEN Len(u) - (CHOOSE i \in 1..Len(u) : u[i] = 46)
    ELSE 0

RECURSIVE Reduced(_, _)
\* num / 10^exp10 with no trailing zero in num while exp10 > 0
Reduced(num, exp10) ==
  IF exp10 > 0 /\ num % 10 = 0 THEN Reduced(num \div 10, exp10 - 1)
  ELSE [num |-> num, exp10 |-> exp10]

\* float(tok) for a token float accepts: the value num / 10^exp10
float(tok) ==
  LET u == Unsigned(tok)
      r == Reduced(DigitsValue(SelectSeq(u, IsDigit)), FracLen(u))
  IN [num |-> IF Head(tok) = 45 THEN 0 - r.num ELSE r.num, exp10 |-> r.exp10]

\* bbox_wgs84 of an item without a box
NoBbox == [tag |-> "None"]

\* no WGS84BoundingBox (LatLonBoundingBox) child
NoBox == [present |-> FALSE]

\* parse_wgs84_bbox passes the corner-pair element by: there is none or it lacks
\* a corner
PassedBy == [tag |-> "passed"]

\* CornerFloats that reads the first two tokens and ignores further ones
CornerFloats_firsttwo(text) ==
  Len(Split(text)) >= 2 /\ \A k \in 1..2 : IsFloat(Split(text)[k])

\* lx, ly = [float(x) for x in lower.split()]: whether it raises nothing
CornerFloats(text) ==
  Len(Split(text)) = 2 /\ \A k \in 1..2 : IsFloat(Split(text)[k])

\* the corner-pair part of parse_wgs84_bbox: wgs is the first WGS84BoundingBox
\* child, its lower and upper the texts of its LowerCorner and UpperCorner
\* children
corner_pair(wgs) ==
  IF ~wgs.present THEN PassedBy
  ELSE LET lower == _child_text(wgs.lower)
           upper == _child_text(wgs.upper)
       IN IF lower = NoText \/ upper = NoText THEN PassedBy
          ELSE IF CornerFloats(lower) /\ CornerFloats(upper)
            THEN [tag |-> "bbox",
                  minx |-> float(Split(lower)[1]), miny |-> float(Split(lower)[2]),
                  maxx |-> float(Split(upper)[1]), maxy |-> float(Split(upper)[2]),
                  crs |-> "EPSG:4326"]
          ELSE NoBbox

\* parse_wgs84_bbox(ft_elem) of _parse_wfs
parse_wgs84_bbox_wfs(ft) ==
  IF corner_pair(ft.wgs) = PassedBy THEN NoBbox ELSE corner_pair(ft.wgs)

\* the Layers below Layer i, in document order
Descendants(L, i) ==
  SelectSeq([j \in 1..Len(L) |-> j],
            LAMBDA j : j > i /\ \A k \in (i + 1)..j : L[k].depth > L[i].depth)

\* the elements of layer_elem.iter() that are a LatLonBoundingBox, by the Layer
\* they are a child of: the one of Layer i itself, then those of the Layers
\* below it (a Layer's LatLonBoundingBox stands before its child Layers)
LatLonBoxes(L, i) ==
  SelectSeq(<<i>> \o Descendants(L, i), LAMBDA j : L[j].latlon.present)

\* the dict of a LatLonBoundingBox, None when float raises on an attribute
latlon_bbox(bb) ==
  IF \A a \in {bb.minx, bb.miny, bb.maxx, bb.maxy} : IsFloat(Strip(a))
    THEN [tag |-> "bbox",
          minx |-> float(Strip(bb.minx)), miny |-> float(Strip(bb.miny)),
          maxx |-> float(Strip(bb.maxx)), maxy |-> float(Strip(bb.maxy)),
          crs |-> "EPSG:4326"]
    ELSE NoBbox

\* parse_wgs84_bbox(layer_elem) of _parse_wms
parse_wgs84_bbox_wms(L, i) ==
  IF corner_pair(L[i].wgs) # PassedBy THEN corner_pair(L[i].wgs)
  ELSE IF LatLonBoxes(L, i) = << >> THEN NoBbox
  ELSE latlon_bbox(L[LatLonBoxes(L, i)[1]].latlon)

\* Emits that keeps the item of a nameless element
Emits_always(name) == TRUE

\* if name:
Emits(name) == name # NoText

\* LayerCrs that adds the own codes to the inherited ones
LayerCrs_merged(crs_here, inherited_crs) == Dedup(inherited_crs \o crs_here)

\* crs_here if crs_here else (inherited_crs or [])
LayerCrs(crs_here, inherited_crs) ==
  IF crs_here # << >> THEN crs_here ELSE inherited_crs

\* whether Layer j is a child element of Layer i
IsChildLayer(L, i, j) ==
  /\ j > i
  /\ L[j].depth = L[i].depth + 1
  /\ \A k \in (i + 1)..j : L[k].depth > L[i].depth

\* ChildLayers that yields the child Layers last first
ChildLayers_reversed(L, i) ==
  LET kids == SelectSeq([j \in 1..Len(L) |-> j], LAMBDA j : IsChildLayer(L, i, j))
  IN [k \in 1..Len(kids) |-> kids[Len(kids) + 1 - k]]

\* _iter_children(layer_elem, "Layer"): the child Layers of Layer i in document order
ChildLayers(L, i) ==
  SelectSeq([j \in 1..Len(L) |-> j], LAMBDA j : IsChildLayer(L, i, j))

\* the dict appended for a WMS Layer
WmsItem(name, title, crs, bbox) ==
  [type |-> "wms_layer", name |-> name,
   prefix |-> _split_qname(name)[1], local_name |-> _split_qname(name)[2],
   title |-> title, crs |-> crs, bbox_wgs84 |-> bbox]

RECURSIVE walk(_, _, _, _)
RECURSIVE WalkEach(_, _, _, _)

\* for child_layer in _iter_children(layer_elem, "Layer"): walk(child_layer, title, crs)
WalkEach(L, kids, title, crs) ==
  IF kids = << >> THEN << >>
  ELSE walk(L, Head(kids), title, crs) \o WalkEach(L, Tail(kids), title, crs)

\* walk(layer_elem, inherited_title, inherited_crs): the items it appends
walk(L, i, inherited_title, inherited_crs) ==
  LET name == _child_text(L[i].Name)
      title == OrText(_child_text(L[i].Title), inherited_title)
      crs == LayerCrs(collect_crs(L[i].CRS), inherited_crs)
      bbox == parse_wgs84_bbox_wms(L, i)
  IN (IF Emits(name) THEN << WmsItem(name, title, crs, bbox) >> ELSE << >>)
       \o WalkEach(L, ChildLayers(L, i), title, crs)

\* _parse_wms: the items in the order they are appended; top_layer is the first
\* Layer of the document, the only one walk is called on
_parse_wms(doc) ==
  IF doc.layers = << >> THEN << >> ELSE walk(doc.layers, 1, NoText, << >>)

\* the elements of a flat list for which an item is appended, in document order
Emitted(elems) ==
  SelectSeq([i \in 1..Len(elems) |-> i], LAMBDA i : Emits(_child_text(elems[i].Name)))

\* the dict appended for a WFS FeatureType
WfsItem(ft) ==
  [type |-> "wfs_featuretype", name |-> _child_text(ft.Name),
   prefix |-> _split_qname(_child_text(ft.Name))[1],
   local_name |-> _split_qname(_child_text(ft.Name))[2],
   title |-> _child_text(ft.Title), bbox_wgs84 |-> parse_wgs84_bbox_wfs(ft)]

\* feature_types that takes every FeatureType of the document, list or not
feature_types_any(doc) == doc.layers

\* feature_types: the FeatureType children of the FeatureTypeList when the
\* document has one, every FeatureType of the document otherwise
feature_types(doc) ==
  IF doc.ft_list
    THEN LET idx == SelectSeq([i \in 1..Len(doc.layers) |-> i], LAMBDA i : i \in doc.listed)
         IN [k \in 1..Len(idx) |-> doc.layers[idx[k]]]
    ELSE doc.layers

\* _parse_wfs: the items in the order they are appended
_parse_wfs(doc) ==
  [k \in 1..Len(Emitted(feature_types(doc))) |->
     WfsItem(feature_types(doc)[Emitted(feature_types(doc))[k]])]

\* str.lower() for the letters A to Z
LowerText(text) ==
  [i \in 1..Len(text) |-> IF text[i] \in 65..90 THEN text[i] + 32 ELSE text[i]]

\* "getfeature", "outputformat"
GETFEATURE == <<103, 101, 116, 102, 101, 97, 116, 117, 114, 101>>
OUTPUTFORMAT == <<111, 117, 116, 112, 117, 116, 102, 111, 114, 109, 97, 116>>

\* the stripped texts of the Value elements of a Parameter that are not empty
ValueTexts(values) ==
  SelectSeq([i \in 1..Len(values) |-> Strip(values[i])], LAMBDA t : t # << >>)

RECURSIVE ParameterValues(_)
\* for p in _find_all(op, "Parameter"): the values of those named outputformat
ParameterValues(params) ==
  IF params = << >> THEN << >>
  ELSE (IF LowerText(Head(params).name) = OUTPUTFORMAT
          THEN ValueTexts(Head(params).values) ELSE << >>)
         \o ParameterValues(Tail(params))

RECURSIVE OperationValues(_)
\* for op in _find_all(ops, "Operation"): the values of those named getfeature
OperationValues(ops) ==
  IF ops = << >> THEN << >>
  ELSE (IF LowerText(Head(ops).name) = GETFEATURE
          THEN ParameterValues(Head(ops).params) ELSE << >>)
         \o OperationValues(Tail(ops))

\* output_formats of _parse_wfs, ops being the Operations of the first
\* OperationsMetadata (none without one)
output_formats(ops) == Dedup(OperationValues(ops))

\* the dict appended for a WCS CoverageSummary; Name holds its CoverageId children
WcsItem(cov) ==
  [type |-> "wcs_coverage", name |-> _child_text(cov.Name),
   prefix |-> << >>, local_name |-> _child_text(cov.Name),
   title |-> _child_text(cov.Title), bbox_wgs84 |-> NoBbox]

\* _parse_wcs: the items in the order they are appended
_parse_wcs(doc) ==
  [k \in 1..Len(Emitted(doc.layers)) |-> WcsItem(doc.layers[Emitted(doc.layers)[k]])]

\* a < b for two str, by code points
StrLess(a, b) ==
  \E k \in 1..Len(b) :
    /\ \A i \in 1..(k - 1) : i <= Len(a) /\ a[i] = b[i]
    /\ (k > Len(a) \/ a[k] < b[k])

\* the sort key of an item
SortKey(x) == <<x.prefix, x.local_name, x.name>>

\* a < b for two sort keys (tuples of three str)
KeyLess(a, b) ==
  \/ StrLess(a[1], b[1])
  \/ a[1] = b[1] /\ StrLess(a[2], b[2])
  \/ a[1] = b[1] /\ a[2] = b[2] /\ StrLess(a[3], b[3])

RECURSIVE sorted(_)
\* sorted(items, key=lambda x: (prefix, local_name, name)): stable, an item goes
\* behind the items before it whose key is not greater
sorted(items) ==
  IF items = << >> THEN << >>
  ELSE LET front == sorted(SubSeq(items, 1, Len(items) - 1))
           x == items[Len(items)]
           n == Cardinality({i \in 1..Len(front) : ~KeyLess(SortKey(x), SortKey(front[i]))})
       IN SubSeq(front, 1, n) \o <<x>> \o SubSeq(front, n + 1, Len(front))

\* the output formats a parser returns; _parse_wms returns none and those of
\* _parse_wcs are empty
ParsedFormats(kind, doc) == IF kind = "wfs" THEN output_formats(doc.ops) ELSE << >>

\* the parser of a service kind
Parsed(kind, doc) ==
  CASE kind = "wms" -> _parse_wms(doc)
    [] kind = "wfs" -> _parse_wfs(doc)
    [] kind = "wcs" -> _parse_wcs(doc)

(* The documents *)

\* the texts of the Name (CoverageId) children of an element: none, a blank one,
\* "a", "b", "a:b"
NameChildren ==
  { << >>, << <<32>> >>, << <<97>> >>, << <<98>> >>, << <<97, COLON, 98>> >> }

\* elements told apart by name only
ByName == [Name : NameChildren, Title : {<< >>}, CRS : {<< >>},
   wgs : {NoBox}, latlon : {NoBox}]

\* elements whose names hold the separator of _split_qname: "a:b:c", ":b", "a:", "b"
ByQName ==
  [Name : { << <<97, COLON, 98, COLON, 99>> >>, << <<COLON, 98>> >>, << <<97, COLON>> >>,
            << <<98>> >> },
   Title : {<< >>}, CRS : {<< >>}, wgs : {NoBox}, latlon : {NoBox}]

\* Layers with and without a name and a Title ("T", " U")
ByTitle ==
  [Name : {<< >>, << <<97>> >>},
   Title : {<< >>, << <<84>> >>, << <<32, 85>> >>},
   CRS : {<< >>}, wgs : {NoBox}, latlon : {NoBox}]

\* Layers with and without a name and CRS children ("C"; "D", a blank one, "C", "D")
ByCrs ==
  [Name : {<< >>, << <<97>> >>},
   Title : {<< >>},
   CRS : {<< >>, << <<67>> >>, << <<68>>, <<32>>, <<67>>, <<68>> >>},
   wgs : {NoBox}, latlon : {NoBox}]

\* Layers with no name, "a" or "b"
ByFewNames == [Name : {<< >>, << <<97>> >>, << <<98>> >>}, Title : {<< >>}, CRS : {<< >>},
   wgs : {NoBox}, latlon : {NoBox}]

\* the texts of the LowerCorner children of a box: none, a blank one, "5.5 47.0",
\* " -5.5<tab>47 ", "5.5", "5.5 47.0 1", "5.5 x"
LowerCorners ==
  { << >>, << <<32>> >>, << <<53, 46, 53, 32, 52, 55, 46, 48>> >>,
    << <<32, 45, 53, 46, 53, 9, 52, 55, 32>> >>, << <<53, 46, 53>> >>,
    << <<53, 46, 53, 32, 52, 55, 46, 48, 32, 49>> >>, << <<53, 46, 53, 32, 120>> >> }

\* the texts of the UpperCorner children of a box: none, "15.5 55.0", "x 55"
UpperCorners ==
  { << >>, << <<49, 53, 46, 53, 32, 53, 53, 46, 48>> >>, << <<120, 32, 53, 53>> >> }

\* FeatureTypes with and without a name and a WGS84BoundingBox
ByBox ==
  [Name : {<< >>, << <<97>> >>}, Title : {<< >>}, CRS : {<< >>},
   wgs : {NoBox} \cup [present : {TRUE}, lower : LowerCorners, upper : UpperCorners],
   latlon : {NoBox}]

\* FeatureTypes "a" and "b" with a box of two good corners or of a bad lower one
ByFewBoxes ==
  [Name : {<< <<97>> >>, << <<98>> >>}, Title : {<< >>}, CRS : {<< >>},
   wgs : [present : {TRUE},
          lower : {<< <<53, 46, 53, 32, 52, 55, 46, 48>> >>, << <<53, 46, 53, 32, 120>> >>},
          upper : {<< <<49, 53, 46, 53, 32, 53, 53, 46, 48>> >>}],
   latlon : {NoBox}]

\* a WGS84BoundingBox of two good corners, one without an UpperCorner, one with
\* the lower corner "5.5 x"
GoodBox ==
  [present |-> TRUE, lower |-> << <<53, 46, 53, 32, 52, 55, 46, 48>> >>,
   upper |-> << <<49, 53, 46, 53, 32, 53, 53, 46, 48>> >>]
NoUpperBox == [GoodBox EXCEPT !.upper = << >>]
BadLowerBox == [GoodBox EXCEPT !.lower = << <<53, 46, 53, 32, 120>> >>]

\* a LatLonBoundingBox with the attributes 1, 2, 3, 4 and one without maxy
GoodLatLon ==
  [present |-> TRUE, minx |-> <<49>>, miny |-> <<50>>, maxx |-> <<51>>, maxy |-> <<52>>]
NoMaxyLatLon == [GoodLatLon EXCEPT !.maxy = << >>]

\* Layers "a" with and without a box of either form
ByLayerBox ==
  [Name : {<< <<97>> >>}, Title : {<< >>}, CRS : {<< >>},
   wgs : {NoBox, GoodBox, NoUpperBox, BadLowerBox}, latlon : {NoBox, GoodLatLon}]
    \cup [Name : {<< <<97>> >>}, Title : {<< >>}, CRS : {<< >>},
          wgs : {NoBox}, latlon : {NoMaxyLatLon}]

\* the depths of n Layers in document order, the first being the top Layer
Depths(n) ==
  {d \in [1..n -> 0..(n - 1)] :
     \A i \in 1..n : IF i = 1 THEN d[i] = 0 ELSE d[i] >= 1 /\ d[i] <= d[i - 1] + 1}

\* the Layer trees of at most MaxLayers Layers with elements from E
LayerTrees(E) ==
  UNION {{[i \in 1..n |-> [depth |-> d[i], Name |-> e[i].Name, Title |-> e[i].Title,
                           CRS |-> e[i].CRS, wgs |-> e[i].wgs, latlon |-> e[i].latlon]] :
            d \in Depths(n), e \in [1..n -> E]} : n \in 0..MaxLayers}

\* the depths of n Layers of a document that holds a further top-level Layer
\* (depth 0) behind its first one
ForestDepths(n) ==
  {d \in [1..n -> 0..(n - 1)] :
     /\ \A i \in 1..n : IF i = 1 THEN d[i] = 0 ELSE d[i] <= d[i - 1] + 1
     /\ \E i \in 2..n : d[i] = 0}

\* the documents of at most MaxLayers Layers with elements from E that hold more
\* than one top-level Layer
LayerForests(E) ==
  UNION {{[i \in 1..n |-> [depth |-> d[i], Name |-> e[i].Name, Title |-> e[i].Title,
                           CRS |-> e[i].CRS, wgs |-> e[i].wgs, latlon |-> e[i].latlon]] :
            d \in ForestDepths(n), e \in [1..n -> E]} : n \in 2..MaxLayers}

\* the documents of one Layer from E and of a Layer with one child Layer
LayerPairs(E) ==
  {<< [depth |-> 0, Name |-> e.Name, Title |-> e.Title, CRS |-> e.CRS,
       wgs |-> e.wgs, latlon |-> e.latlon] >> : e \in E}
    \cup {[i \in 1..2 |-> [depth |-> i - 1, Name |-> e[i].Name, Title |-> e[i].Title,
                            CRS |-> e[i].CRS, wgs |-> e[i].wgs, latlon |-> e[i].latlon]] :
            e \in [1..2 -> E]}

\* the flat lists of at most MaxLayers elements from E
FlatLists(E) ==
  UNION {{[i \in 1..n |-> [depth |-> 0, Name |-> e[i].Name, Title |-> e[i].Title,
                           CRS |-> e[i].CRS, wgs |-> e[i].wgs, latlon |-> e[i].latlon]] : e \in [1..n -> E]} : n \in 0..MaxLayers}

\* the documents of one element from E
Singles(E) ==
  {<< [depth |-> 0, Name |-> e.Name, Title |-> e.Title, CRS |-> e.CRS,
       wgs |-> e.wgs, latlon |-> e.latlon] >> : e \in E}

\* the elements of the documents the parser of a kind is given
ParseInputs(kind) ==
  IF kind = "wms"
  THEN LayerTrees(ByName) \cup LayerTrees(ByQName) \cup LayerTrees(ByTitle)
         \cup LayerTrees(ByCrs) \cup LayerForests(ByFewNames)
         \cup LayerPairs(ByLayerBox)
  ELSE IF kind = "wfs"
  THEN FlatLists(ByName) \cup FlatLists(ByQName) \cup Singles(ByBox)
         \cup FlatLists(ByFewBoxes)
  ELSE FlatLists(ByName) \cup FlatLists(ByQName)

\* the texts of the Value elements of a Parameter: "G", "J"; " J ", a blank
\* one, "G", "J"
ValueLists == { << <<71>>, <<74>> >>, << <<32, 74, 32>>, <<32>>, <<71>>, <<74>> >> }

\* Parameters named outputFormat, OUTPUTFORMAT and resultType
Parameters ==
  [name : {<<111, 117, 116, 112, 117, 116, 70, 111, 114, 109, 97, 116>>}, values : ValueLists]
    \cup [name : {<<79, 85, 84, 80, 85, 84, 70, 79, 82, 77, 65, 84>>},
          values : {<< <<32, 74, 32>>, <<32>>, <<71>>, <<74>> >>}]
    \cup [name : {<<114, 101, 115, 117, 108, 116, 84, 121, 112, 101>>},
          values : {<< <<71>>, <<74>> >>}]

\* the sequences of at most two elements of S
UpToTwo(S) == {<< >>} \cup {<<x>> : x \in S} \cup {<<x, y>> : x, y \in S}

\* Operations named GetFeature, GETFEATURE and DescribeFeatureType
Operations ==
  [name : { <<71, 101, 116, 70, 101, 97, 116, 117, 114, 101>>,
            <<71, 69, 84, 70, 69, 65, 84, 85, 82, 69>>,
            <<68, 101, 115, 99, 114, 105, 98, 101, 70, 101, 97, 116, 117, 114, 101,
              84, 121, 112, 101>> },
   params : UpToTwo(Parameters)]

\* the documents the parsers other than _parse_wfs read no more of than their
\* elements, and the WFS documents with every FeatureType in the
\* FeatureTypeList and no OperationsMetadata
PlainDocs(kind) ==
  {[layers |-> l, ft_list |-> kind = "wfs",
    listed |-> IF kind = "wfs" THEN 1..Len(l) ELSE {}, ops |-> << >>] :
     l \in ParseInputs(kind)}

\* the WFS documents with and without a FeatureTypeList, any of their
\* FeatureTypes being children of it
ListDocs ==
  UNION {{[layers |-> l, ft_list |-> TRUE, listed |-> c, ops |-> << >>] :
            c \in SUBSET (1..Len(l))}
           \cup {[layers |-> l, ft_list |-> FALSE, listed |-> {}, ops |-> << >>]} :
         l \in FlatLists(ByFewNames)}

\* the WFS documents of a FeatureType "a" outside the FeatureTypeList and a
\* FeatureType "b" in it, with an OperationsMetadata of at most two Operations
OperationDocs ==
  {[layers |-> [i \in 1..2 |-> [depth |-> 0, Name |-> << <<96 + i>> >>, Title |-> << >>,
                                CRS |-> << >>, wgs |-> NoBox, latlon |-> NoBox]],
    ft_list |-> TRUE, listed |-> {2}, ops |-> o] : o \in UpToTwo(Operations)}

\* the documents the parser of a kind is given
ParseDocs(kind) ==
  IF kind = "wfs" THEN PlainDocs(kind) \cup ListDocs \cup OperationDocs
  ELSE PlainDocs(kind)

\* a candidate's document is parsed and the result dict is built: its items are
\* the parser's items, sorted
ParseAndSort ==
  /\ px.pc = "doc"
  /\ px' = [px EXCEPT !.pc = "done",
                       !.parsed = Parsed(px.kind, px),
                       !.items = sorted(Parsed(px.kind, px)),
                       !.output_formats = ParsedFormats(px.kind, px)]
  /\ UNCHANGED <<now, max_url_len, cache, nuse, th, prev, ncalls, keys, bu, fx, tm>>

InitParse ==
  /\ now = 0
  /\ nuse = 0
  /\ th = [t \in Threads |-> IdleCall]
  /\ prev = NoCall
  /\ ncalls = 0
  /\ keys = {}
  /\ cache = << >>
  /\ max_url_len = MAX_URL_LEN
  /\ bu = NoBuild
  /\ fx = NoFetch
  /\ \E kind \in {"wms", "wfs", "wcs"} : \E doc \in ParseDocs(kind) :
       px = [pc |-> "doc", kind |-> kind, layers |-> doc.layers,
             ft_list |-> doc.ft_list, listed |-> doc.listed, ops |-> doc.ops,
             parsed |-> << >>, items |-> << >>, output_formats |-> << >>]
  /\ tm = NoTimed

SpecParse == InitParse /\ [][ParseAndSort]_vars

----------------------------------------------------------------------------
(* _get_service_data_impl and time.perf_counter.  perf_counter returns a    *)
(* binary float of seconds.  A reading r of the model counts ticks of       *)
(* 1/1024 s and stands for perf_counter() = r / 1024, which a float holds   *)
(* exactly; so it holds the difference of two readings and the product of   *)
(* the difference with 1000, and int() cuts the fraction off.  started is   *)
(* read once, before the loop over the candidates; time passes while a      *)
(* candidate is built, fetched and parsed.  attempt_started records the     *)
(* reading at which the try block of the current candidate was entered;     *)
(* the code keeps no such value.                                            *)

\* ticks of perf_counter in one second
TICKS_PER_SECOND == 1024

\* readings of perf_counter when _get_service_data_impl is entered, in ticks
StartReadings == {0, 7}

\* int((time.perf_counter() - started) * 1000) for readings in ticks
elapsed_ms(clock, started) == ((clock - started) * 1000) \div TICKS_PER_SECOND

\* one tick passes during the attempt of the current candidate, as long as the
\* time since started stays within MaxMillis milliseconds
TimedElapse ==
  /\ tm.pc = "loop"
  /\ elapsed_ms(tm.clock + 1, tm.started) <= MaxMillis
  /\ tm' = [tm EXCEPT !.clock = @ + 1]
  /\ UNCHANGED <<now, max_url_len, cache, nuse, th, prev, ncalls, keys, bu, fx, px>>

\* the try block of the current candidate raises: last_err = e; continue
TimedAttemptRaises ==
  /\ tm.pc = "loop"
  /\ tm' = IF tm.idx < Len(versions(tm.kind))
             THEN [tm EXCEPT !.idx = @ + 1, !.attempt_started = tm.clock]
             ELSE [tm EXCEPT !.pc = "raised"]
  /\ UNCHANGED <<now, max_url_len, cache, nuse, th, prev, ncalls, keys, bu, fx, px>>

\* the current candidate is fetched and parsed: the dict is returned with
\* "fetch_ms": elapsed_ms
TimedAttemptReturns ==
  /\ tm.pc = "loop"
  /\ tm' = [tm EXCEPT !.pc = "returned", !.fetch_ms = elapsed_ms(tm.clock, tm.started)]
  /\ UNCHANGED <<now, max_url_len, cache, nuse, th, prev, ncalls, keys, bu, fx, px>>

NextTimed ==
  \/ TimedElapse
  \/ TimedAttemptRaises
  \/ TimedAttemptReturns

\* _get_service_data_impl after started = time.perf_counter()
InitTimed ==
  /\ now = 0
  /\ nuse = 0
  /\ th = [t \in Threads |-> IdleCall]
  /\ prev = NoCall
  /\ ncalls = 0
  /\ keys = {}
  /\ cache = << >>
  /\ max_url_len = MAX_URL_LEN
  /\ bu = NoBuild
  /\ fx = NoFetch
  /\ px = NoParse
  /\ \E kind \in {"wms", "wfs", "wcs"}, r \in StartReadings :
       tm = [pc |-> "loop", kind |-> kind, idx |-> 1, clock |-> r, started |-> r,
             attempt_started |-> r, fetch_ms |-> None]

SpecTimed == InitTimed /\ [][NextTimed]_vars

----------------------------------------------------------------------------
(* The request handlers api and index in front of get_service_data.        *)

\* the 400 responses of api
MissingParameter ==
  [tag |-> "error", type |-> "HTTP400", label |-> "missing", detail |-> EmptyText]
UnknownServiceKey ==
  [tag |-> "error", type |-> "HTTP400", label |-> "unknown_key", detail |-> EmptyText]

\* values of the service query parameter, stripped: the registered key of the
\* behaviour, an unregistered key, no value
ServiceParams == keys \cup {"nope", ""}

\* a handler that answers without calling get_service_data
Answer(t, service_key, refresh_arg, caller, ret) ==
  /\ th[t].pc \in {"idle", "done"}
  /\ ncalls < MaxCalls
  /\ ncalls' = ncalls + 1
  /\ prev' = IF th[t].pc = "done" THEN Summary(th[t]) ELSE prev
  /\ th' = [th EXCEPT ![t] = [IdleCall EXCEPT !.pc = "done", !.key = service_key,
                                               !.arg = refresh_arg,
                                               !.refresh = refresh_arg,
                                               !.caller = caller, !.ret = ret]]
  /\ UNCHANGED <<now, max_url_len, cache, nuse, keys, bu, fx, px, tm>>

\* GET /api?service=..&refresh=..
api(t, service_key, refresh_param) ==
  LET refresh == NormRefresh(refresh_param) IN
  IF service_key = "" THEN Answer(t, service_key, refresh, "api", MissingParameter)
  ELSE IF service_key \notin DOMAIN OGC_SERVICES
    THEN Answer(t, service_key, refresh, "api", UnknownServiceKey)
  ELSE CallService(t, service_key, refresh, "api")

\* GET /?service=..&refresh=..
index(t, service_key, refresh_param) ==
  LET refresh == NormRefresh(refresh_param) IN
  IF service_key = "" THEN Answer(t, service_key, refresh, "index", NoRet)
  ELSE IF service_key \notin DOMAIN OGC_SERVICES
    THEN Answer(t, service_key, refresh, "index", UnknownService)
  ELSE CallService(t, service_key, refresh, "index")

NextApi ==
  \/ \E t \in Threads, k \in ServiceParams, r \in RefreshInputs : api(t, k, r)
  \/ \E t \in Threads, k \in ServiceParams, r \in RefreshInputs : index(t, k, r)
  \/ \E t \in Threads, e \in ErrTypes : \E c \in Causes(e) : AttemptRaises(t, e, c)
  \/ \E t \in Threads, d \in Docs : AttemptReturns(t, d)
  \/ Tick

SpecApi == Init /\ [][NextApi]_vars

----------------------------------------------------------------------------
(* Two requests served at the same time: the WSGI server runs each request  *)
(* on a thread of its own, and every thread calls get_service_data.  A      *)
(* thread takes one step at a time; steps of the two threads interleave in  *)
(* any order.                                                               *)

Workers == {"t1", "t2"}

\* the upstream of these requests fails, when it fails, by a connect timeout
ConcErrTypes == {"Timeout"}

NextConc ==
  \/ \E t \in Workers, k \in keys : get_service_data(t, k, 0)
  \/ \E t \in Workers, e \in ConcErrTypes :
       AttemptRaises(t, e, DefaultConnectTimeout)
  \/ \E t \in Workers, d \in Docs : AttemptReturns(t, d)
  \/ Tick

InitConc ==
  /\ now = 0
  /\ nuse = 0
  /\ th = [t \in Workers |-> IdleCall]
  /\ prev = NoCall
  /\ ncalls = 0
  /\ \E k \in DOMAIN OGC_SERVICES : keys = {k}
  /\ max_url_len = MAX_URL_LEN
  /\ cache = << >>
  /\ bu = NoBuild
  /\ fx = NoFetch
  /\ px = NoParse
  /\ tm = NoTimed

SpecConc == InitConc /\ [][NextConc]_vars

----------------------------------------------------------------------------
(* A process that has served requests for a while: every service of the    *)
(* registry was fetched once in the current bucket, two of them also in    *)
(* the bucket before, so the lru_cache is full.                            *)

REGISTRY_KEYS ==
  <<"dwd_wfs", "dwd_wms", "cdc_wfs", "cdc_wms", "dwd_warnungen_wms",
    "dwd_geoproxy_wms", "pegel_wfs", "pegel_wms", "hydronote_nl_wfs",
    "hynetwork_nl_wms", "watercourselink_nl_wfs", "bkg_topplus_open_wms",
    "bkg_basemapde_wms", "bkg_vg250_wms", "bkg_vg250_wfs", "bkg_gn250_wms",
    "bkg_gn250_inspire_wms", "bkg_gn250_inspire_wfs", "bkg_dlm250_inspire_wfs",
    "bkg_dlm250_inspire_wms", "wmts_dop", "wms_dop", "bfn_schutzgebiete_wms",
    "bfn_schutzgebiete_wfs", "thuenen_atlas_wms", "thuenen_atlas_wfs",
    "uba_gwn_wms", "uba_stickstoff_wms", "bgr_buek1000_wms", "dlr_eoc_land_wms",
    "dlr_eoc_land_wfs", "eumetsat_view_wms", "eumetsat_view_wfs",
    "eea_corine_clc2018_wms", "eea_natura2000_wms", "copernicus_effis_wms",
    "copernicus_efas_wms", "copernicus_drought_wms", "emodnet_bathymetry_wms",
    "emodnet_bathymetry_wfs", "dop20_bw_wms", "dop20_by_wms", "dop20_be_wms",
    "dop20_bb_wms", "dop20_hb_wms", "dop20_hh_wms", "dop20_he_wms",
    "dop20_mv_wms", "dop20_ni_wms", "dop20_nw_wms", "dop20_rp_wms",
    "dop20_sl_wms", "dop20_sn_wms", "dop20_st_wms", "dop20_sh_wms",
    "dop20_th_wms", "dop20_bw_wcs", "dop20_bb_wcs", "dop20_he_wcs",
    "dop20_mv_wcs", "dop20_nw_wcs", "dop20_sl_wcs">>

\* the value cached for service k fetched at time t; services outside the
\* modelled part of the registry are kept as opaque results
WarmVal(k, t) ==
  IF k \in DOMAIN OGC_SERVICES
    THEN ServiceResult(k, versions(OGC_SERVICES[k].kind)[1],
                       [version |-> None, Version |-> None, nitems |-> 1], t)
    ELSE [tag |-> "result", key |-> k, fetched_at |-> t]

WarmKeys ==
  << <<REGISTRY_KEYS[1], -1>>, <<REGISTRY_KEYS[2], -1>> >>
    \o [i \in 1..Len(REGISTRY_KEYS) |-> <<REGISTRY_KEYS[i], 0>>]

WarmCache ==
  [i \in 1..Len(WarmKeys) |->
     [key |-> WarmKeys[i],
      val |-> WarmVal(WarmKeys[i][1], WarmKeys[i][2] * CACHE_TTL_SECONDS),
      used |-> i - Len(WarmKeys)]]

InitLRU ==
  /\ InitCommon
  /\ max_url_len = MAX_URL_LEN
  /\ cache = WarmCache

SpecLRU == InitLRU /\ [][Next]_vars

----------------------------------------------------------------------------
(* Properties *)

Registered(k) == k \in DOMAIN OGC_SERVICES

Front(q) == SubSeq(q, 1, Len(q) - 1)
Last(q) == q[Len(q)]

\* the candidate orders as the specification lists them
ListedOrder(kind) ==
  CASE kind = "wms" -> <<"1.3.0", "1.1.1", "">>
    [] kind = "wfs" -> <<"2.0.0", "1.1.0", "1.0.0", "">>
    [] kind = "wcs" -> <<"2.0.1", "2.0.0", "1.0.0", "">>

\* C1: of two successive non-bypass calls for the same registered key whose clock
\* readings fall in the same TTL bucket, the first returning a ServiceResult, the
\* second returns the same ServiceResult (same fetched_at) and issues no
\* upstream request.
C1_SameBucketReplay ==
  \A t \in Threads :
    LET c == th[t] IN
    ( /\ c.pc = "done" /\ c.arg = 0
      /\ Registered(c.key) /\ prev.key = c.key
      /\ prev.arg = 0 /\ prev.tag = "result"
      /\ prev.bucket = c.bucket )
    => ( /\ c.ret = prev.val
         /\ c.ret.fetched_at = prev.val.fetched_at
         /\ c.reqs = << >> )

\* a second non-bypass call in the bucket of a first one that fetched, later on
\* the clock than the fetch, has returned
C1_Witness ==
  \E t \in Threads :
    /\ th[t].pc = "done" /\ th[t].arg = 0 /\ th[t].hit
    /\ prev.arg = 0 /\ prev.tag = "result" /\ prev.key = th[t].key
    /\ prev.bucket = th[t].bucket /\ prev.nreqs >= 2
    /\ now > th[t].ret.fetched_at

\* C2: every call with refresh=1 for a registered key issues at least one new
\* upstream request, whatever the cache holds.
C2_BypassRequests ==
  \A t \in Threads :
    (th[t].pc = "done" /\ th[t].arg = 1 /\ Registered(th[t].key))
    => Len(th[t].reqs) >= 1

\* a bypass call has returned while the cache holds a result for its key and the
\* current bucket
C2_Witness ==
  \E t \in Threads :
    /\ th[t].pc = "done" /\ th[t].arg = 1 /\ Registered(th[t].key)
    /\ CacheFind(cache, <<th[t].key, Bucket(now)>>) # 0
    /\ Len(th[t].reqs) >= 1

\* C3: no step of a bypass call (its start, its attempts, its success or its
\* failure) changes the cache: no entry is added, replaced, removed or re-ordered.
C3_BypassLeavesCache ==
  [][ \A t \in Threads :
        (th'[t] # th[t] /\ th'[t].arg = 1) => cache' = cache ]_vars

\* a bypass call has succeeded with a result other than the one the cache holds for
\* its key and the current bucket
C3_Witness ==
  \E t \in Threads :
    /\ th[t].pc = "done" /\ th[t].arg = 1 /\ th[t].ret.tag = "result"
    /\ CacheFind(cache, <<th[t].key, Bucket(now)>>) # 0
    /\ cache[CacheFind(cache, <<th[t].key, Bucket(now)>>)].val # th[t].ret

\* C4: a failed non-bypass fetch leaves no entry for its key and bucket, and the
\* next non-bypass call for that key in the same bucket issues upstream requests
\* again.
C4_FailureNotCached ==
  \A t \in Threads :
    LET c == th[t] IN
    /\ ( /\ c.pc = "done" /\ c.arg = 0 /\ Registered(c.key)
         /\ c.ret.tag = "error" )
       => CacheFind(cache, <<c.key, c.bucket>>) = 0
    /\ ( /\ c.pc = "done" /\ c.arg = 0 /\ Registered(c.key)
         /\ prev.key = c.key /\ prev.arg = 0 /\ prev.tag = "error"
         /\ prev.bucket = c.bucket )
       => (Len(c.reqs) >= 1 /\ ~c.hit)

\* after a failed non-bypass call the next one in the same bucket has fetched and
\* returned a result
C4_Witness ==
  \E t \in Threads :
    /\ th[t].pc = "done" /\ th[t].arg = 0 /\ th[t].ret.tag = "result"
    /\ prev.key = th[t].key /\ prev.arg = 0 /\ prev.tag = "error"
    /\ prev.bucket = th[t].bucket /\ prev.nreqs >= 3

\* C5: the candidates of a fetch are attempted one after another in the listed
\* order, each only after all before it have failed, and none after the one that
\* succeeded.
C5_CandidateOrder ==
  \A t \in Threads :
    LET c == th[t]
        order == ListedOrder(OGC_SERVICES[c.key].kind)
    IN (Registered(c.key) /\ c.pc \in {"fetch", "done"} /\ ~c.hit) =>
         /\ Len(c.tried) <= Len(order)
         /\ \A i \in 1..Len(c.tried) : c.tried[i] = order[i]
         /\ Len(c.reqs) = Len(c.tried)
         /\ \A i \in 1..Len(c.reqs) :
              c.reqs[i] = _build_url(OGC_SERVICES[c.key].url,
                                     Updates(OGC_SERVICES[c.key].kind, order[i]))
         /\ c.pc = "fetch" => (c.failed = c.tried /\ c.idx = Len(c.tried) + 1)
         /\ (c.pc = "done" /\ c.ret.tag = "result") => c.failed = Front(c.tried)
         /\ (c.pc = "done" /\ c.ret.tag = "error") => (c.failed = order /\ c.tried = order)

\* a WFS fetch has succeeded at its fourth candidate
C5_Witness ==
  \E t \in Threads :
    /\ th[t].pc = "done" /\ th[t].ret.tag = "result" /\ ~th[t].hit
    /\ th[t].tried = <<"2.0.0", "1.1.0", "1.0.0", "">>
    /\ th[t].failed = <<"2.0.0", "1.1.0", "1.0.0">>

\* C6: the request of the unspecified candidate carries no version parameter,
\* whatever the base URL's own query holds.
C6_UnspecifiedHasNoVersion ==
  \A t \in Threads :
    \A i \in 1..Len(th[t].reqs) :
      th[t].tried[i] = "" =>
        \A j \in 1..Len(th[t].reqs[i].query) :
          Lower(th[t].reqs[i].query[j][1]) # "version"

\* C7: when every candidate has failed the fetch ends with the RuntimeError whose
\* description is the text of the last candidate's exception cut to 220
\* characters: never empty, and with no character of an earlier candidate's
\* exception.
C7_LastErrorOnly ==
  \A t \in Threads :
    LET c == th[t]
        n == Len(ListedOrder(OGC_SERVICES[c.key].kind))
        d == c.ret.detail
    IN (c.pc = "done" /\ Registered(c.key) /\ c.ret.tag = "error") =>
         /\ c.ret.type = "RuntimeError"
         /\ c.ret.label = ServiceName(OGC_SERVICES[c.key].kind)
         /\ Len(c.failed) = n
         /\ d.len >= 1 /\ d.len <= 220
         /\ d.len = Min(220, c.last_err.text.len)
         /\ d.char = c.last_err.text.char /\ d.char[2] = n

\* all candidates of a fetch have failed and the last exception's text, longer
\* than 220 characters, was cut
C7_Witness ==
  \E t \in Threads :
    /\ th[t].pc = "done" /\ Registered(th[t].key) /\ th[t].ret.tag = "error"
    /\ th[t].last_err.text.len > 220
    /\ th[t].ret.detail.len = 220

\* the version attribute the root element of a document declares, None without one
Declared(doc) ==
  IF doc.version \notin {None, ""} THEN doc.version
  ELSE IF doc.Version \notin {None, ""} THEN doc.Version
  ELSE None

\* C8 as claimed: a fetch that succeeds at candidate v has service.version = v
\* (None for the unspecified candidate) and attempted no candidate after v.
C8_VersionIsCandidate ==
  \A t \in Threads :
    LET c == th[t] IN
    (c.pc = "done" /\ c.ret.tag = "result" /\ ~c.hit) =>
      /\ c.ret.version = (IF Last(c.tried) = "" THEN None ELSE Last(c.tried))
      /\ c.failed = Front(c.tried)

\* C8 amended: a fetch that succeeds at candidate v, all candidates before v having
\* failed, attempted no candidate after v, and its service.version is the version
\* the document's root element declares, or v when it declares none (None for
\* the unspecified candidate).
C8_VersionFallback ==
  \A t \in Threads :
    LET c == th[t]
        order == ListedOrder(OGC_SERVICES[c.key].kind)
        v == Last(c.tried)
    IN (c.pc = "done" /\ c.ret.tag = "result" /\ ~c.hit) =>
         /\ c.failed = Front(c.tried)
         /\ c.tried = SubSeq(order, 1, Len(c.tried))
         /\ Len(c.reqs) = Len(c.tried)
         /\ c.ret.capabilities_url = Last(c.reqs)
         /\ c.ret.version =
              (IF Declared(c.doc) # None THEN Declared(c.doc)
               ELSE IF v # "" THEN v ELSE None)

\* the WMS example: 1.3.0 failed with an HTTP error, 1.1.1 returned a document
\* declaring version 1.1.1, the unspecified candidate was not attempted
C8_Witness ==
  \E t \in Threads :
    /\ th[t].pc = "done" /\ th[t].ret.tag = "result" /\ ~th[t].hit
    /\ th[t].key = "dwd_wms"
    /\ th[t].tried = <<"1.3.0", "1.1.1">> /\ th[t].failed = <<"1.3.0">>
    /\ th[t].last_err.type = "HTTPError"
    /\ th[t].doc.version = "1.1.1"
    /\ th[t].ret.version = "1.1.1"

\* C9: once _build_url has rejected the base URL the fetch is over: one candidate
\* attempted, and the caller gets the ValueError of _build_url.
C9_InvalidEndpointImmediate ==
  \A t \in Threads :
    LET c == th[t] IN
    ( /\ Registered(c.key) /\ c.pc \in {"fetch", "done"} /\ ~c.hit
      /\ _build_url_error(OGC_SERVICES[c.key].url, max_url_len) # None
      /\ Len(c.tried) >= 1 )
    => ( /\ c.pc = "done"
         /\ Len(c.tried) = 1
         /\ c.ret.tag = "error" /\ c.ret.type = "ValueError" )

\* the keys of the cache
CacheKeys(c) == {c[i].key : i \in 1..Len(c)}

\* the cache is in order of last use
RecencyOrdered(c) == \A i, j \in 1..Len(c) : i < j => c[i].used < c[j].used

\* C10: the cache never holds more than 64 entries, holds them in the order of
\* their last use (a hit or the store), and an entry leaves it only when a new
\* entry is stored into the full cache, and then it is the least recently used.
C10_BoundedLRU ==
  /\ [](Len(cache) <= 64 /\ RecencyOrdered(cache))
  /\ [][ \A k \in CacheKeys(cache) \ CacheKeys(cache') :
           /\ Len(cache) = 64 /\ Len(cache') = 64
           /\ CacheKeys(cache') \ CacheKeys(cache) # {}
           /\ \A i \in 1..Len(cache) :
                cache[CacheFind(cache, k)].used <= cache[i].used ]_vars

\* after a hit on an entry of the full cache a store evicted the oldest entry and
\* kept the entry that was hit
C10_Witness ==
  \E t \in Threads :
    /\ Len(cache) = 64
    /\ CacheFind(cache, WarmKeys[1]) = 0
    /\ th[t].pc = "done" /\ th[t].arg = 0 /\ ~th[t].hit
    /\ cache[64].key = <<th[t].key, 1>>
    /\ cache[63].key = <<th[t].key, 0>>

\* C11: two concurrent get_service_data(key, 0) calls for the same cold
\* (key, bucket) do not block each other: a thread can start its call and look
\* the key up whatever the other thread is doing, a step of one thread leaves
\* the call of the other as it is, a call that fetched returns the result of its
\* own last request, and the cache never holds two entries for one
\* (key, bucket).
C11_NoBlockingOneEntry ==
  /\ [](\A i, j \in 1..Len(cache) : i # j => cache[i].key # cache[j].key)
  /\ [](\A t \in Workers :
          /\ (th[t].pc # "fetch" /\ ncalls < MaxCalls) =>
               ENABLED (\E k \in keys : get_service_data(t, k, 0))
          /\ (th[t].pc = "done" /\ ~th[t].hit /\ th[t].ret.tag = "result") =>
               th[t].ret.capabilities_url = Last(th[t].reqs))
  /\ [][ \A t, u \in Workers : (th'[t] # th[t] /\ u # t) => th'[u] = th[u] ]_vars

\* both threads missed the cold (key, bucket), both fetched on their own and both
\* returned, with different results; the cache holds the one stored first
C11_Witness ==
  /\ \A t \in Workers :
       /\ th[t].pc = "done" /\ th[t].arg = 0 /\ ~th[t].hit
       /\ th[t].ret.tag = "result" /\ Len(th[t].reqs) >= 1
  /\ th["t1"].key = th["t2"].key /\ th["t1"].bucket = th["t2"].bucket
  /\ th["t1"].ret # th["t2"].ret
  /\ Len(cache) = 1
  /\ cache[1].key = <<th["t1"].key, th["t1"].bucket>>
  /\ cache[1].val \in {th["t1"].ret, th["t2"].ret}

\* the fields of the dict the pipeline constructs
ResultFields ==
  {"tag", "key", "kind", "capabilities_url", "version", "counts", "fetched_at"}

\* C12: a ServiceResult is immutable once constructed: the value the cache holds
\* has the fields the pipeline constructed and no other, and the value returned
\* to the previous caller through the cache is still the value the cache holds
\* for its key and bucket.
C12_ResultImmutable ==
  /\ \A i \in 1..Len(cache) : DOMAIN cache[i].val = ResultFields
  /\ (prev.val # NoRet /\ CacheFind(cache, <<prev.key, prev.bucket>>) # 0)
       => cache[CacheFind(cache, <<prev.key, prev.bucket>>)].val = prev.val

\* C13: get_service_data with an unregistered key ends at once with the
\* ValueError of the key check, for refresh 0 and 1: no cache lookup, no
\* candidate, no request; and the step leaves the cache as it was.
C13_UnknownKeyRejected ==
  /\ [](\A t \in Threads :
          (th[t].pc # "idle" /\ ~Registered(th[t].key)) =>
            /\ th[t].pc = "done"
            /\ th[t].ret = UnknownService
            /\ ~th[t].hit
            /\ th[t].tried = << >> /\ th[t].reqs = << >>)
  /\ [][ \A t \in Threads :
           (th'[t] # th[t] /\ ~Registered(th'[t].key)) =>
             (cache' = cache /\ nuse' = nuse) ]_vars

\* a call with an unregistered key and refresh=0 has ended while the cache holds
\* the result of the call before it
C13_Witness ==
  \E t \in Threads :
    /\ th[t].pc = "done" /\ th[t].key = "nope" /\ th[t].arg = 0
    /\ th[t].ret = UnknownService
    /\ prev.tag = "result" /\ prev.arg = 0
    /\ Len(cache) = 1 /\ cache[1].val = prev.val

\* C14 as claimed: _build_url returns a URL exactly for the base URLs that are
\* non-empty, no longer than MAX_URL_LEN and whose scheme, as written, is https.
C14_SchemeExactlyHttps ==
  bu.pc = "done" =>
    (bu.ret.tag = "url" <=>
       /\ bu.base_url.len >= 1 /\ bu.base_url.len <= max_url_len
       /\ bu.base_url.scheme = "https")

\* C14 amended: _build_url returns a URL exactly for the base URLs that are
\* non-empty, no longer than MAX_URL_LEN and whose scheme is https in any
\* spelling of upper and lower case; for every other base URL it raises the
\* ValueError of the failed check and returns nothing.
C14_SchemeHttpsAnyCase ==
  bu.pc = "done" =>
    /\ bu.ret.tag = "url" <=>
         /\ bu.base_url.len >= 1 /\ bu.base_url.len <= max_url_len
         /\ bu.base_url.scheme \in {"https", "HTTPS"}
    /\ bu.ret.tag # "url" =>
         /\ bu.ret.tag = "error"
         /\ bu.ret.type \in {"ValueError:url", "ValueError:scheme"}
         /\ DOMAIN bu.ret = {"tag", "type"}
    /\ bu.ret.tag = "url" => bu.ret.url.scheme = "https"

\* a base URL of exactly MAX_URL_LEN characters written with the scheme HTTPS was
\* accepted
C14_Witness ==
  /\ bu.pc = "done" /\ bu.ret.tag = "url"
  /\ bu.base_url.scheme = "HTTPS" /\ bu.base_url.len = max_url_len

\* the index of the last pair of q whose key, lowercased, is k; 0 without one
LastWith(q, k) ==
  IF \E i \in 1..Len(q) : Lower(q[i][1]) = k
    THEN CHOOSE i \in 1..Len(q) :
           Lower(q[i][1]) = k /\ \A j \in 1..Len(q) : Lower(q[j][1]) = k => j <= i
    ELSE 0

\* C15: the query of a URL built by _build_url has only lowercase keys, holds
\* every logical key of the base URL and of the overrides exactly once, gives an
\* overridden key the value of the override (of the last one, if several spell
\* the same key), and a key that is not overridden a value the base URL gave it.
C15_QueryNormalised ==
  (bu.pc = "done" /\ bu.ret.tag = "url") =>
    LET q == bu.ret.url.query
        b == bu.base_url.query
        u == bu.updates
    IN /\ \A i \in 1..Len(q) : Lower(q[i][1]) = q[i][1]
       /\ \A i, j \in 1..Len(q) : i # j => q[i][1] # q[j][1]
       /\ \A i \in 1..Len(b) : \E j \in 1..Len(q) : q[j][1] = Lower(b[i][1])
       /\ \A i \in 1..Len(u) : \E j \in 1..Len(q) : q[j][1] = Lower(u[i][1])
       /\ \A i \in 1..Len(q) :
            IF LastWith(u, q[i][1]) # 0
              THEN q[i][2] = u[LastWith(u, q[i][1])][2]
              ELSE \E j \in 1..Len(b) : Lower(b[j][1]) = q[i][1] /\ q[i][2] = b[j][2]

\* the example: base ?SERVICE=WMS&Version=1.1.0 with override version=1.3.0 gave
\* the query service=WMS&version=1.3.0
C15_Witness ==
  /\ bu.pc = "done" /\ bu.ret.tag = "url"
  /\ bu.base_url.query = << <<"SERVICE", "WMS">>, <<"Version", "1.1.0">> >>
  /\ bu.updates = << <<"version", "1.3.0">> >>
  /\ bu.ret.url.query = << <<"service", "WMS">>, <<"version", "1.3.0">> >>

RECURSIVE PrefixSum(_, _)
\* the number of bytes in the first n chunks of body
PrefixSum(body, n) == IF n = 0 THEN 0 ELSE PrefixSum(body, n - 1) + body[n]

\* C16: _fetch_xml returns a payload only when the whole body holds at most
\* MAX_XML_BYTES bytes, and then the payload is the whole body; it raises the
\* size error at the first chunk with which the bytes read exceed the limit
\* (never at or below the limit), having read no chunk after that one.
C16_SizeLimit ==
  /\ fx.pc = "returned" =>
       /\ PrefixSum(fx.body, Len(fx.body)) <= fx.limit
       /\ fx.pos = Len(fx.body)
       /\ fx.payload = PrefixSum(fx.body, Len(fx.body))
  /\ (fx.pc = "raised" /\ fx.err = "ValueError:size") =>
       /\ fx.pos >= 1 /\ fx.pos <= Len(fx.body)
       /\ PrefixSum(fx.body, fx.pos) > fx.limit
       /\ \A n \in 0..(fx.pos - 1) : PrefixSum(fx.body, n) <= fx.limit
       /\ fx.payload = None
  /\ fx.pc = "stream" =>
       /\ fx.size = PrefixSum(fx.body, fx.pos)
       /\ fx.size <= fx.limit

\* the second chunk took the bytes read over the limit and the third chunk of
\* the body was not read
C16_Witness ==
  /\ fx.pc = "raised" /\ fx.err = "ValueError:size"
  /\ fx.pos = 2 /\ Len(fx.body) = 3
  /\ fx.size - fx.body[2] = CHUNK_SIZE
  /\ fx.size > fx.limit

\* C17: the items of a result are sorted strictly ascending by
\* (prefix, local_name, name): each key is less than the next one.
C17_StrictlyAscending ==
  px.pc = "done" =>
    \A i \in 1..(Len(px.items) - 1) :
      KeyLess(SortKey(px.items[i]), SortKey(px.items[i + 1]))

\* C18: no two items of a result have the same name, whatever the document
\* declares.
C18_NoDuplicateNames ==
  px.pc = "done" =>
    \A i, j \in 1..Len(px.items) : i # j => px.items[i].name # px.items[j].name

\* whether the first Name (CoverageId) child of an element has a text that is
\* not blank
Named(e) ==
  /\ e.Name # << >>
  /\ \E c \in 1..Len(e.Name[1]) : ~IsSpace(e.Name[1][c])

\* the elements of a document that have a name, in document order
NamedElements(L) == SelectSeq([i \in 1..Len(L) |-> i], LAMBDA i : Named(L[i]))

\* whether Layer i is the first Layer of the document or lies below it
InTopTree(L, i) == \A j \in 2..i : L[j].depth > 0

\* the elements with a name that the parser of the document comes to: those of
\* the tree of the first Layer for WMS, the children of the FeatureTypeList of
\* a WFS document that has one, all of them otherwise
NamedVisited ==
  SelectSeq(NamedElements(px.layers),
            LAMBDA i : /\ px.kind = "wms" => InTopTree(px.layers, i)
                       /\ (px.kind = "wfs" /\ px.ft_list) => i \in px.listed)

\* C19: no item has an empty name, for the three parsers: an element without a
\* non-blank name gives no item, every element with one that the parser comes
\* to gives exactly one item, also a WMS Layer below nameless Layers.
C19_NoEmptyName ==
  px.pc = "done" =>
    /\ \A k \in 1..Len(px.items) : px.items[k].name # << >>
    /\ Len(px.parsed) = Len(NamedVisited)
    /\ Len(px.items) = Len(px.parsed)
    /\ \A k \in 1..Len(px.parsed) :
         px.parsed[k].name = Strip(px.layers[NamedVisited[k]].Name[1])

\* a WMS document of three nested Layers, the outer two without a name (one with
\* a blank Name, one with no Name), gave the one item of the innermost Layer
C19_Witness ==
  /\ px.pc = "done" /\ px.kind = "wms" /\ Len(px.layers) = 3
  /\ px.layers[2].depth = 1 /\ px.layers[3].depth = 2
  /\ px.layers[1].Name = << <<32>> >> /\ px.layers[2].Name = << >>
  /\ Len(px.items) = 1 /\ px.items[1].name = <<97, COLON, 98>>

\* the parent Layer of Layer i, 0 for the top Layer
ParentLayer(L, i) ==
  IF L[i].depth = 0 THEN 0
  ELSE CHOOSE j \in 1..(i - 1) :
         /\ L[j].depth = L[i].depth - 1
         /\ \A k \in (j + 1)..(i - 1) : L[k].depth >= L[i].depth

\* a Layer with a Title of its own, with CRS/SRS codes of its own
HasTitle(e) == e.Title # << >> /\ \E c \in 1..Len(e.Title[1]) : ~IsSpace(e.Title[1][c])
HasCrs(e) == \E n \in 1..Len(e.CRS) : \E c \in 1..Len(e.CRS[n]) : ~IsSpace(e.CRS[n][c])

RECURSIVE NearestTitled(_, _)
\* Layer i or its nearest ancestor that has a Title, 0 without one
NearestTitled(L, i) ==
  IF i = 0 THEN 0
  ELSE IF HasTitle(L[i]) THEN i
  ELSE NearestTitled(L, ParentLayer(L, i))

RECURSIVE NearestWithCrs(_, _)
\* Layer i or its nearest ancestor that declares a code, 0 without one
NearestWithCrs(L, i) ==
  IF i = 0 THEN 0
  ELSE IF HasCrs(L[i]) THEN i
  ELSE NearestWithCrs(L, ParentLayer(L, i))

\* the codes a Layer declares
OwnCodes(e) == {Strip(e.CRS[n]) : n \in 1..Len(e.CRS)} \ {<< >>}

\* C20: the item of a WMS Layer has the Title of the Layer or of its nearest
\* ancestor that has one (the empty title without one), and as CRS list the
\* codes of the Layer or of its nearest ancestor that declares any (each code
\* once), with no code of a Layer further up; nameless Layers on the path hand
\* both on.
C20_Inheritance ==
  (px.pc = "done" /\ px.kind = "wms") =>
    LET L == px.layers
        named == NamedVisited
    IN \A k \in 1..Len(px.parsed) :
         LET i == named[k]
             t == NearestTitled(L, i)
             c == NearestWithCrs(L, i)
             crs == px.parsed[k].crs
         IN /\ px.parsed[k].title = (IF t = 0 THEN << >> ELSE Strip(L[t].Title[1]))
            /\ {crs[n] : n \in 1..Len(crs)} = (IF c = 0 THEN {} ELSE OwnCodes(L[c]))
            /\ \A m, n \in 1..Len(crs) : m # n => crs[m] # crs[n]

\* three nested Layers: the top one declares the code "C", the nameless one
\* below it declares nothing, and the Layer below that, with no CRS of its own,
\* got the list of the top Layer
C20_Witness ==
  /\ px.pc = "done" /\ px.kind = "wms" /\ Len(px.layers) = 3
  /\ px.layers[2].depth = 1 /\ px.layers[3].depth = 2
  /\ px.layers[1].CRS = << <<67>> >>
  /\ px.layers[2].Name = << >> /\ px.layers[2].CRS = << >>
  /\ px.layers[3].Name # << >> /\ px.layers[3].CRS = << >>
  /\ px.parsed[Len(px.parsed)].crs = << <<67>> >>

\* C21: fetch_ms of a result is the duration of the successful attempt only: the
\* time from the entry into the try block of the candidate that succeeded to
\* the reading taken after its parse, with no time of an earlier, failed
\* candidate.
C21_SuccessfulAttemptOnly ==
  tm.pc = "returned" => tm.fetch_ms = elapsed_ms(tm.clock, tm.attempt_started)

\* whether prefix and local_name of item x are its name split at its first ":"
SplitAtFirstColon(x) ==
  IF \E i \in 1..Len(x.name) : x.name[i] = COLON
    THEN /\ x.name = x.prefix \o <<COLON>> \o x.local_name
         /\ \A i \in 1..Len(x.prefix) : x.prefix[i] # COLON
    ELSE x.prefix = << >> /\ x.local_name = x.name

\* C22: for every item of every dialect, prefix and local_name are name split
\* at its first ":", and prefix is empty with local_name equal to name exactly
\* when name holds no ":".
C22_SplitAtFirstColon ==
  px.pc = "done" =>
    \A k \in 1..Len(px.items) :
      /\ SplitAtFirstColon(px.items[k])
      /\ (px.items[k].prefix = << >> /\ px.items[k].local_name = px.items[k].name)
           <=> (\A i \in 1..Len(px.items[k].name) : px.items[k].name[i] # COLON)

\* C23: for one URL the Transport issues at most 1 + HTTP_RETRIES requests, a
\* request is issued again only after a response with status 429, 500, 502, 503
\* or 504 or after a connection-level failure, a response handed back as the
\* payload has a 2xx status, and once the Transport has handed its outcome back
\* no further request is issued.
C23_BoundedRetries ==
  /\ [](fx.pc # "idle" =>
          /\ fx.sent <= 1 + HTTP_RETRIES
          /\ (fx.pc = "get" /\ fx.sent >= 1) =>
               (fx.resp.error # None \/ fx.resp.status \in {429, 500, 502, 503, 504})
          /\ fx.pc \in {"stream", "returned"} =>
               (fx.resp.status >= 200 /\ fx.resp.status <= 299))
  /\ [][ (fx.pc \notin {"idle", "get"}) => fx'.sent = fx.sent ]_vars

\* the kinds of failure of one candidate: final non-2xx status, timeout,
\* transport error, oversized payload, malformed XML
FailureKinds == {"HTTPError", "Timeout", "ConnectionError", "ValueError:size", "ParseError"}

\* C24: a candidate's failure of any kind is absorbed: the step in which a
\* candidate that is not the last one fails leaves the call running, at the
\* next candidate, with nothing returned and the cache untouched; each
\* candidate is attempted at most once with one request, the request after
\* a failed one is a different request, and an error reaches the caller only
\* when every candidate has failed.
C24_FailureAbsorbed ==
  /\ [](\A t \in Threads :
          LET c == th[t]
              order == versions(OGC_SERVICES[c.key].kind)
          IN (Registered(c.key) /\ c.pc \in {"fetch", "done"} /\ ~c.hit) =>
               /\ c.pc = "fetch" =>
                    (c.ret = NoRet /\ c.idx = Len(c.failed) + 1 /\ c.idx <= Len(order))
               /\ c.ret.tag = "error" => (c.pc = "done" /\ c.failed = order)
               /\ Len(c.reqs) = Len(c.tried)
               /\ \A i, j \in 1..Len(c.tried) : i # j => c.tried[i] # c.tried[j]
               /\ \A i \in 1..(Len(c.reqs) - 1) : c.reqs[i + 1] # c.reqs[i])
  /\ [][ \A t \in Threads :
           LET c == th[t]
               d == th'[t]
               order == versions(OGC_SERVICES[c.key].kind)
           IN (c.pc = "fetch" /\ Len(d.failed) = Len(c.failed) + 1) =>
                /\ d.last_err.type \in FailureKinds
                /\ d.reqs = Append(c.reqs, cap_url(c.key, order[c.idx]))
                /\ IF c.idx < Len(order)
                     THEN /\ d.pc = "fetch" /\ d.idx = c.idx + 1 /\ d.ret = NoRet
                          /\ cache' = cache
                     ELSE d.pc = "done" /\ d.ret.tag = "error" ]_vars

\* a WFS fetch whose first three candidates failed, the third by an oversized
\* payload, has returned the result of the fourth
C24_Witness ==
  \E t \in Threads :
    /\ th[t].pc = "done" /\ th[t].ret.tag = "result" /\ ~th[t].hit
    /\ Len(th[t].failed) = 3 /\ Len(th[t].reqs) = 4
    /\ th[t].last_err.type = "ValueError:size"

\* C25 as stated: for any WMS document, _parse_wms appends exactly one item for
\* each Layer element of the document that has a non-empty Name, in the
\* depth-first pre-order of the Layers (their document order).
C25_EveryNamedLayer ==
  (px.pc = "done" /\ px.kind = "wms") =>
    /\ Len(px.parsed) = Len(NamedElements(px.layers))
    /\ \A k \in 1..Len(px.parsed) :
         px.parsed[k].name = Strip(px.layers[NamedElements(px.layers)[k]].Name[1])

\* C25, amended: _parse_wms appends exactly one item for each Layer with a
\* non-empty Name that is the first Layer of the document or is reached from
\* it through child Layers, in depth-first pre-order (a Layer before its child
\* Layers, siblings in document order); a Layer outside that tree gives no
\* item.
C25_TopLayerTree ==
  (px.pc = "done" /\ px.kind = "wms") =>
    LET named == NamedVisited
    IN /\ Len(px.parsed) = Len(named)
       /\ \A k \in 1..Len(px.parsed) :
            /\ px.parsed[k].name = Strip(px.layers[named[k]].Name[1])
            /\ InTopTree(px.layers, named[k])
       /\ \A i \in 1..Len(px.layers) :
            ~InTopTree(px.layers, i) => \A k \in 1..Len(named) : named[k] # i

\* a document of three named Layers, the second a child of the first and the
\* third a further top-level Layer, gave the items of the first two, parent
\* first
C25_Witness ==
  /\ px.pc = "done" /\ px.kind = "wms" /\ Len(px.layers) = 3
  /\ px.layers[2].depth = 1 /\ px.layers[3].depth = 0
  /\ px.layers[1].Name = << <<98>> >> /\ px.layers[2].Name = << <<97>> >>
  /\ px.layers[3].Name = << <<97>> >>
  /\ Len(px.parsed) = 2
  /\ px.parsed[1].name = <<98>> /\ px.parsed[2].name = <<97>>

\* whether the first corner child of these texts holds exactly two numbers
ExactlyTwoNumbers(children) ==
  /\ children # << >>
  /\ Len(Split(children[1])) = 2
  /\ IsFloat(Split(children[1])[1]) /\ IsFloat(Split(children[1])[2])

\* C26: a WFS FeatureType whose WGS84BoundingBox has the lower corner "a b" and
\* the upper corner "c d" gets the bbox {minx a, miny b, maxx c, maxy d, crs
\* EPSG:4326} ("5.5 47.0" and "15.5 55.0" give 5.5, 47, 15.5, 55); one whose box
\* is absent, lacks a corner or has a corner that is not exactly two numbers
\* gets no bbox, and its item is appended all the same.
C26_WfsBbox ==
  (px.pc = "done" /\ px.kind = "wfs") =>
    LET named == NamedVisited
    IN /\ Len(px.parsed) = Len(named)
       /\ \A k \in 1..Len(px.parsed) :
            LET ft == px.layers[named[k]]
                bbox == px.parsed[k].bbox_wgs84
            IN /\ px.parsed[k].name = Strip(ft.Name[1])
               /\ IF /\ ft.wgs.present
                     /\ ExactlyTwoNumbers(ft.wgs.lower)
                     /\ ExactlyTwoNumbers(ft.wgs.upper)
                    THEN /\ bbox.tag = "bbox" /\ bbox.crs = "EPSG:4326"
                         /\ bbox.minx = float(Split(ft.wgs.lower[1])[1])
                         /\ bbox.miny = float(Split(ft.wgs.lower[1])[2])
                         /\ bbox.maxx = float(Split(ft.wgs.upper[1])[1])
                         /\ bbox.maxy = float(Split(ft.wgs.upper[1])[2])
                    ELSE bbox = NoBbox
               /\ (/\ ft.wgs.present
                   /\ ft.wgs.lower = << <<53, 46, 53, 32, 52, 55, 46, 48>> >>
                   /\ ft.wgs.upper = << <<49, 53, 46, 53, 32, 53, 53, 46, 48>> >>)
                    => /\ bbox.minx = [num |-> 55, exp10 |-> 1]
                       /\ bbox.miny = [num |-> 47, exp10 |-> 0]
                       /\ bbox.maxx = [num |-> 155, exp10 |-> 1]
                       /\ bbox.maxy = [num |-> 55, exp10 |-> 0]

\* of two FeatureTypes the first, with the lower corner "5.5 x", got its item
\* without a bbox and the second, with the corners "5.5 47.0" and "15.5 55.0",
\* got the bbox 5.5, 47, 15.5, 55
C26_Witness ==
  /\ px.pc = "done" /\ px.kind = "wfs" /\ Len(px.layers) = 2 /\ Len(px.parsed) = 2
  /\ px.layers[1].wgs.present /\ px.layers[1].wgs.lower = << <<53, 46, 53, 32, 120>> >>
  /\ px.parsed[1].bbox_wgs84 = NoBbox
  /\ px.layers[2].wgs.present
  /\ px.parsed[2].bbox_wgs84.tag = "bbox"
  /\ px.parsed[2].bbox_wgs84.minx = [num |-> 55, exp10 |-> 1]
  /\ px.parsed[2].bbox_wgs84.maxy = [num |-> 55, exp10 |-> 0]

\* the places of the outputFormat values of the GetFeature Operations of the
\* document (names compared without regard to case) whose stripped text is not
\* empty: Operation, Parameter and Value number
FormatPlaces ==
  {pl \in (1..Len(px.ops)) \X (1..2) \X (1..4) :
     /\ LowerText(px.ops[pl[1]].name) = GETFEATURE
     /\ pl[2] <= Len(px.ops[pl[1]].params)
     /\ LowerText(px.ops[pl[1]].params[pl[2]].name) = OUTPUTFORMAT
     /\ pl[3] <= Len(px.ops[pl[1]].params[pl[2]].values)
     /\ Strip(px.ops[pl[1]].params[pl[2]].values[pl[3]]) # << >>}

\* the stripped text at a place, and whether place a is before place b
FormatAt(pl) == Strip(px.ops[pl[1]].params[pl[2]].values[pl[3]])
PlaceBefore(a, b) ==
  \/ a[1] < b[1]
  \/ a[1] = b[1] /\ a[2] < b[2]
  \/ a[1] = b[1] /\ a[2] = b[2] /\ a[3] < b[3]

\* the first place of a format
FirstPlace(f) ==
  CHOOSE a \in FormatPlaces :
    FormatAt(a) = f /\ \A b \in FormatPlaces : FormatAt(b) = f => ~PlaceBefore(b, a)

\* C27: _parse_wfs takes its feature types from the FeatureType children of the
\* FeatureTypeList when the document has one and from all FeatureTypes of the
\* document otherwise; output_formats holds the non-empty outputFormat values
\* of the GetFeature operation, each exactly once, in the order of their first
\* occurrence in the document.
C27_ListAndFormats ==
  (px.pc = "done" /\ px.kind = "wfs") =>
    LET from == SelectSeq(NamedElements(px.layers),
                          LAMBDA i : px.ft_list => i \in px.listed)
        of == px.output_formats
    IN /\ Len(px.parsed) = Len(from)
       /\ \A k \in 1..Len(from) : px.parsed[k].name = Strip(px.layers[from[k]].Name[1])
       /\ {of[n] : n \in 1..Len(of)} = {FormatAt(pl) : pl \in FormatPlaces}
       /\ \A m, n \in 1..Len(of) : m # n => of[m] # of[n]
       /\ \A m, n \in 1..Len(of) :
            m < n => PlaceBefore(FirstPlace(of[m]), FirstPlace(of[n]))

\* a document whose FeatureType "a" stands outside the FeatureTypeList and whose
\* FeatureType "b" stands in it, with a DescribeFeatureType operation and a
\* GetFeature operation whose outputFormat values are " J ", a blank one, "G"
\* and "J": the item is "b" and the formats are "J", "G"
C27_Witness ==
  /\ px.pc = "done" /\ px.kind = "wfs" /\ px.ft_list /\ px.listed = {2}
  /\ Len(px.parsed) = 1 /\ px.parsed[1].name = <<98>>
  /\ Len(px.ops) = 2
  /\ LowerText(px.ops[1].name) # GETFEATURE /\ px.ops[1].params # << >>
  /\ LowerText(px.ops[1].params[1].name) = OUTPUTFORMAT
  /\ LowerText(px.ops[2].name) = GETFEATURE /\ Len(px.ops[2].params) = 1
  /\ px.ops[2].params[1].values = << <<32, 74, 32>>, <<32>>, <<71>>, <<74>> >>
  /\ px.output_formats = << <<74>>, <<71>> >>

\* C28: the bounding box of a WMS layer comes from the Layer's own children
\* only, the corner-pair element first and the attribute element otherwise: the
\* item of a Layer that declares neither has no bounding box, even when a Layer
\* below it declares one, and an item's box is that of its Layer's own
\* corner-pair or attribute element.
C28_OwnBoxOnly ==
  (px.pc = "done" /\ px.kind = "wms") =>
    \A k \in 1..Len(px.parsed) :
      LET e == px.layers[NamedVisited[k]]
          bbox == px.parsed[k].bbox_wgs84
      IN /\ (~e.wgs.present /\ ~e.latlon.present) => bbox = NoBbox
         /\ bbox # NoBbox =>
              \/ /\ e.wgs.present
                 /\ ExactlyTwoNumbers(e.wgs.lower) /\ ExactlyTwoNumbers(e.wgs.upper)
                 /\ bbox.minx = float(Split(e.wgs.lower[1])[1])
                 /\ bbox.maxy = float(Split(e.wgs.upper[1])[2])
              \/ /\ e.latlon.present
                 /\ bbox.minx = float(Strip(e.latlon.minx))
                 /\ bbox.maxy = float(Strip(e.latlon.maxy))

\* C29: a result served from the cache is younger than one TTL: in the step in
\* which a call without bypass returns a cached result at clock time now,
\* now - fetched_at < CACHE_TTL_SECONDS, however long the fetch that stored it
\* took; every stored result was fetched at or after the start of the bucket
\* it is stored under and not after the present reading of the clock.
C29_YoungerThanTtl ==
  /\ [](\A i \in 1..Len(cache) :
          /\ cache[i].val.fetched_at >= cache[i].key[2] * CACHE_TTL_SECONDS
          /\ cache[i].val.fetched_at <= now)
  /\ [][ \A t \in DOMAIN th :
           (/\ ncalls' = ncalls + 1
            /\ th'[t].pc = "done" /\ th'[t].hit /\ th'[t].refresh = 0
            /\ (th'[t] # th[t] \/ th' = th))
             => /\ th'[t].ret.tag = "result"
                /\ now - th'[t].ret.fetched_at < CACHE_TTL_SECONDS
                /\ now - th'[t].ret.fetched_at >= 0 ]_vars

\* a call in the last second of a bucket was served the result fetched in the
\* first second of that bucket
C29_Witness ==
  \E t \in DOMAIN th :
    /\ th[t].pc = "done" /\ th[t].hit /\ th[t].refresh = 0
    /\ th[t].ret.fetched_at = 0
    /\ now = CACHE_TTL_SECONDS - 1

\* a fetch begun in the last second of a bucket and ended in the next one has
\* stored its result under the bucket it began in
StoredAcrossBoundary ==
  \E i \in 1..Len(cache) :
    /\ cache[i].key[2] = 0
    /\ cache[i].val.fetched_at = CACHE_TTL_SECONDS

\* C30: a candidate whose document yields no item is a success like any other:
\* in the step in which it is returned the call ends with a result of zero
\* items, after the one request of that candidate, no candidate added to the
\* failed ones, and a call without bypass has the result in the cache; a later
\* call without bypass in the bucket of a cached empty result is served that
\* result without a request.
C30_EmptyIsSuccess ==
  [][ \A t \in DOMAIN th :
        LET c == th[t]
            d == th'[t]
            pos == CacheFind(cache, <<d.key, Bucket(now)>>)
        IN /\ (c.pc = "fetch" /\ d.doc # NoDoc /\ d.doc.nitems = 0) =>
                /\ d.pc = "done" /\ d.ret.tag = "result" /\ d.ret.counts = 0
                /\ d.reqs = Append(c.reqs, cap_url(c.key, Candidates(t)[c.idx]))
                /\ d.failed = c.failed
                /\ d.refresh = 0 =>
                     /\ CacheFind(cache', <<d.key, d.bucket>>) # 0
                     /\ cache'[CacheFind(cache', <<d.key, d.bucket>>)].val = d.ret
           /\ (/\ ncalls' = ncalls + 1 /\ d # c /\ d.refresh = 0
               /\ pos # 0 /\ cache[pos].val.counts = 0) =>
                /\ d.pc = "done" /\ d.hit /\ d.reqs = << >>
                /\ d.ret.tag = "result" /\ d.ret.counts = 0
                /\ d.ret.fetched_at = cache[pos].val.fetched_at ]_vars

\* a call without bypass got an empty result from its first candidate with one
\* request, and the next call, in the last second of the bucket, was served
\* that result from the cache
C30_Witness ==
  \E t \in DOMAIN th :
    /\ prev.tag = "result" /\ prev.refresh = 0 /\ prev.nreqs = 1
    /\ prev.val # NoRet /\ prev.val.counts = 0
    /\ th[t].pc = "done" /\ th[t].hit /\ th[t].reqs = << >>
    /\ th[t].ret.counts = 0 /\ th[t].ret.fetched_at = 0
    /\ now = CACHE_TTL_SECONDS - 1

====
